---- MODULE Spec2Model ----
(***************************************************************************)
(* psync: parallel directory copy.                                         *)
(*                                                                         *)
(* Part I models infchan/infchan.go: the generic channel of unbounded      *)
(* capacity (a goroutine and a slice between two Go channels), driven as   *)
(* in infchan_test.go by one sender and one receiver.                      *)
(*                                                                         *)
(* Part II models psync.go: main, the dispatcher goroutine, the copyDir    *)
(* worker goroutines, copyFile and the attribute helpers, over an abstract *)
(* file system.                                                            *)
(*                                                                         *)
(* The two parts are independent programs.  Each specification drives one  *)
(* part and keeps the variables of the other at their initial value.       *)
(***************************************************************************)
EXTENDS Integers, Sequences, FiniteSets, TLC

(***************************************************************************)
(* Bounds of the model.                                                    *)
(***************************************************************************)
\* Largest number of values the sender sends (COUNT of infchan_test.go is 25).
MaxCount == 4
\* Largest chanCap handed to InfChan (0 = unbuffered send/receive channels).
MaxChanCap == 2

(***************************************************************************)
(* Generic helpers.                                                        *)
(***************************************************************************)
\* Number of positions of sequence s that hold x.
Occurrences(s, x) == Cardinality({n \in 1..Len(s) : s[n] = x})

(***************************************************************************)
(* PART I - infchan/infchan.go                                             *)
(***************************************************************************)
VARIABLES
    fifo,       \* InfChan parameter fifo
    chanCap,    \* InfChan parameter chanCap: capacity of in and out
    count,      \* number of values the sender sends (COUNT)
    i,          \* the sender's loop variable: next value to send
    sPc,        \* sender: "send" (in its loop), "done" (after close(s))
    in,         \* buffer of the send channel
    inClosed,   \* close(s) has happened
    out,        \* buffer of the receive channel
    outClosed,  \* close(out) has happened
    data,       \* the slice of infchan
    qPc,        \* infchan goroutine: "readloop", "writeloop", "done"
    k,          \* position of the writer loop's range over data
    received,   \* receiver: the values received so far, in order
    rPc         \* receiver: "body" (running, not in a receive), "range" (in the
                \* receive of `for i := range r`), "done" (after the loop)

qvars == <<fifo, chanCap, count, i, sPc, in, inClosed, out, outClosed,
           data, qPc, k, received, rPc>>

(* The variables of part II (psync.go), declared here so that the actions   *)
(* of part I can leave them unchanged.                                     *)
VARIABLES
    src,        \* the source tree: path -> kind
    dst0,       \* the destination tree when the run starts
    dst,        \* the destination tree: path -> Entry
    fail,       \* the failing file system operations
    argsOk,     \* the command line names a source and a destination
    optThreads, \* -threads
    optVerbose, \* -verbose
    optCreate,  \* -create
    optSync,    \* -sync
    optOwner,   \* -owner
    optTimes,   \* -times
    optQuiet,   \* -quiet
    mainPc,     \* main: "flags", "prepare", "start", "add", "send", "wait",
                \* "exit" (main returned), "exit1" (os.Exit(1))
    wg,         \* the WaitGroup's counter
    dch,        \* buffer of the dispatcher channel
    wch,        \* buffer of the worker channel
    worklist,   \* the dispatcher's work list
    pc,         \* copyDir(id), for the copy threads started: "recv", "readsrc", "readdst", "loop", "send", "done"
    dir,        \* copyDir(id): the directory being handled
    files,      \* copyDir(id): the entries of the range loop not yet handled
    desthash,   \* copyDir(id): name -> kind of the destination entries
    stderr,     \* bag of the lines written to os.Stderr, each <<message, path>>
    stdout,     \* bag of the lines written to os.Stdout, each <<message, path>>
    sent,       \* bag of the paths sent on dch
    retrieved,  \* bag of the paths received from wch by the workers
    completed   \* bag of the paths whose job called wg.Done

evars == <<src, dst0, dst, fail, argsOk, optThreads, optVerbose, optCreate,
           optSync, optOwner, optTimes, optQuiet,
           mainPc, wg, dch, wch, worklist, pc, dir, files, desthash,
           stderr, stdout, sent, retrieved, completed>>

vars == <<qvars, evars>>

\* The part of the engine's state that is constant once flags() has
\* returned: the inputs of a run.
inputs == <<src, dst0, fail, argsOk, optThreads, optVerbose, optCreate,
            optSync, optOwner, optTimes, optQuiet>>

\* State after InfChan(chanCap, sliceCap, fifo) returned and the test started
\* its sender goroutine and its receiving loop.
QInit ==
    /\ fifo \in BOOLEAN
    /\ chanCap \in 0..MaxChanCap
    /\ count \in 1..MaxCount
    /\ i = 0
    /\ sPc = "send"
    /\ in = <<>>
    /\ inClosed = FALSE
    /\ out = <<>>
    /\ outClosed = FALSE
    /\ data = <<>>
    /\ qPc = "readloop"
    /\ k = 0
    /\ received = <<>>
    /\ rPc = "body"

\* The variables of part I at rest (used by the specifications of part II).
QIdle ==
    /\ fifo = TRUE
    /\ chanCap = 0
    /\ count = 0
    /\ i = 0
    /\ sPc = "done"
    /\ in = <<>>
    /\ inClosed = TRUE
    /\ out = <<>>
    /\ outClosed = TRUE
    /\ data = <<>>
    /\ qPc = "done"
    /\ k = 0
    /\ received = <<>>
    /\ rPc = "done"

------------------------------------------------------------------------------
(* Go channel semantics for the two endpoints.                              *)

\* The sender is blocked in (or about to execute) `s <- i`.
SenderOffers == sPc = "send" /\ i < count

\* A receive on `in` can complete with a value: from the buffer, or, when the
\* buffer is empty (always so for an unbuffered channel), directly from the
\* sender waiting in its send.
InHasValue == in # <<>> \/ (chanCap = 0 /\ SenderOffers)

\* Mutant of InDrained: a receive on the closed send channel reports the
\* close although values are still in its buffer.
InClosedOnly == inClosed

\* A receive on `in` can complete with ok = false: closed and drained.
InDrained == in = <<>> /\ inClosed

\* The receiver is blocked in (or about to execute) a receive of its range loop.
ReceiverWaits == rPc = "range"

\* A send on `out` can complete: room in the buffer, or, for an unbuffered
\* channel, the receiver waiting.
OutAccepts == Len(out) < chanCap \/ (chanCap = 0 /\ ReceiverWaits)

\* Mutant of TakeIn: a value taken from the sender of an unbuffered channel
\* leaves the sender in its send.
TakeInKeepsSender ==
    /\ InHasValue
    /\ IF in # <<>>
          THEN /\ data' = Append(data, Head(in))
               /\ in' = Tail(in)
               /\ i' = i
          ELSE /\ data' = Append(data, i)
               /\ in' = in
               /\ i' = i

\* `t, ok := <-in` with ok = true: the effect on in, i and data.
TakeIn ==
    /\ InHasValue
    /\ IF in # <<>>
          THEN /\ data' = Append(data, Head(in))
               /\ in' = Tail(in)
               /\ i' = i
          ELSE /\ data' = Append(data, i)
               /\ in' = in
               /\ i' = i + 1

\* `out <- v`: the effect on out and, when the value is handed to the waiting
\* receiver, on the receiver.
PutOut(v) ==
    /\ OutAccepts
    /\ IF Len(out) < chanCap
          THEN /\ out' = Append(out, v)
               /\ received' = received
               /\ rPc' = rPc
          ELSE /\ out' = out
               /\ received' = Append(received, v)
               /\ rPc' = "body"

------------------------------------------------------------------------------
(* The sender of the tests: for i := 0; i < COUNT; i++ { s <- i }; close(s) *)

\* `s <- i` into the buffer of a buffered send channel.
SenderSend ==
    /\ SenderOffers
    /\ Len(in) < chanCap
    /\ in' = Append(in, i)
    /\ i' = i + 1
    /\ UNCHANGED <<fifo, chanCap, count, sPc, inClosed, out, outClosed,
                   data, qPc, k, received, rPc>>
    /\ UNCHANGED evars

\* `close(s)` after the loop.
SenderClose ==
    /\ sPc = "send"
    /\ i = count
    /\ inClosed' = TRUE
    /\ sPc' = "done"
    /\ UNCHANGED <<fifo, chanCap, count, i, in, out, outClosed,
                   data, qPc, k, received, rPc>>
    /\ UNCHANGED evars

------------------------------------------------------------------------------
(* func infchan                                                             *)

\* Mutant of Index: the last element is offered whatever the fifo flag says.
IndexLast == Len(data) - 1

\* Index of the element offered to the receiver (0-based, as in the source).
Index == IF fifo THEN 0 ELSE Len(data) - 1

\* Mutant of Dropped: `data[:index+1]`, which keeps the element just written.
DroppedKeepsLast == IF fifo THEN Tail(data) ELSE SubSeq(data, 1, Index + 1)

\* The slice after the offered element was written.
Dropped == IF fifo THEN Tail(data) ELSE SubSeq(data, 1, Index)

\* Reader loop, data empty: `t, ok := <-in` received a value.
ReadEmptyRecv ==
    /\ qPc = "readloop"
    /\ Len(data) = 0
    /\ TakeIn
    /\ UNCHANGED <<fifo, chanCap, count, sPc, inClosed, out, outClosed,
                   qPc, k, received, rPc>>
    /\ UNCHANGED evars

\* Reader loop, data empty: the send channel is closed, break readloop.
ReadEmptyClosed ==
    /\ qPc = "readloop"
    /\ Len(data) = 0
    /\ InDrained
    /\ qPc' = "writeloop"
    /\ k' = 0
    /\ UNCHANGED <<fifo, chanCap, count, i, sPc, in, inClosed, out, outClosed,
                   data, received, rPc>>
    /\ UNCHANGED evars

\* Mutant of SelectRecv: a select without the receive case, which only offers
\* its element to the receiver while data is present.
SelectRecvMissing == FALSE /\ UNCHANGED vars

\* Mutant of SelectRecv: the value received is not appended to data.
SelectRecvDiscards ==
    /\ qPc = "readloop"
    /\ Len(data) # 0
    /\ InHasValue
    /\ IF in # <<>> THEN in' = Tail(in) /\ i' = i ELSE in' = in /\ i' = i + 1
    /\ UNCHANGED <<fifo, chanCap, count, sPc, inClosed, out, outClosed,
                   data, qPc, k, received, rPc>>
    /\ UNCHANGED evars

\* Reader loop, data present, select case `t, ok := <-in` with a value.
SelectRecv ==
    /\ qPc = "readloop"
    /\ Len(data) # 0
    /\ TakeIn
    /\ UNCHANGED <<fifo, chanCap, count, sPc, inClosed, out, outClosed,
                   qPc, k, received, rPc>>
    /\ UNCHANGED evars

\* Reader loop, data present, select case `<-in` with ok = false.
SelectClosed ==
    /\ qPc = "readloop"
    /\ Len(data) # 0
    /\ InDrained
    /\ qPc' = "writeloop"
    /\ k' = 0
    /\ UNCHANGED <<fifo, chanCap, count, i, sPc, in, inClosed, out, outClosed,
                   data, received, rPc>>
    /\ UNCHANGED evars

\* Reader loop, data present, select case `out <- data[index]`.
SelectSend ==
    /\ qPc = "readloop"
    /\ Len(data) # 0
    /\ PutOut(data[Index + 1])
    /\ data' = Dropped
    /\ UNCHANGED <<fifo, chanCap, count, i, sPc, in, inClosed, outClosed,
                   qPc, k>>
    /\ UNCHANGED evars

\* Mutant of WriteLoop: the remaining values are written in the order of the
\* reader loop, the last element first when fifo is false.
WriteLoopByMode ==
    /\ qPc = "writeloop"
    /\ k < Len(data)
    /\ PutOut(IF fifo THEN data[k + 1] ELSE data[Len(data) - k])
    /\ k' = k + 1
    /\ UNCHANGED <<fifo, chanCap, count, i, sPc, in, inClosed, outClosed,
                   data, qPc>>
    /\ UNCHANGED evars

\* Writer loop: `for _, t := range data { out <- t }`, one iteration.
WriteLoop ==
    /\ qPc = "writeloop"
    /\ k < Len(data)
    /\ PutOut(data[k + 1])
    /\ k' = k + 1
    /\ UNCHANGED <<fifo, chanCap, count, i, sPc, in, inClosed, outClosed,
                   data, qPc>>
    /\ UNCHANGED evars

\* `close(out)` after the writer loop; the goroutine returns.
CloseOut ==
    /\ qPc = "writeloop"
    /\ k = Len(data)
    /\ outClosed' = TRUE
    /\ qPc' = "done"
    /\ UNCHANGED <<fifo, chanCap, count, i, sPc, in, inClosed, out,
                   data, k, received, rPc>>
    /\ UNCHANGED evars

------------------------------------------------------------------------------
(* The receiver of the tests: for i := range r { ... }                      *)

\* The receiver reaches the receive of its range loop: the first time from the
\* statements before the loop, later from the loop's body.
ReceiverLoop ==
    /\ rPc = "body"
    /\ rPc' = "range"
    /\ UNCHANGED <<fifo, chanCap, count, i, sPc, in, inClosed, out, outClosed,
                   data, qPc, k, received>>
    /\ UNCHANGED evars

\* One iteration: a value taken from the buffer of the receive channel.
Receive ==
    /\ ReceiverWaits
    /\ out # <<>>
    /\ received' = Append(received, Head(out))
    /\ out' = Tail(out)
    /\ rPc' = "body"
    /\ UNCHANGED <<fifo, chanCap, count, i, sPc, in, inClosed, outClosed,
                   data, qPc, k>>
    /\ UNCHANGED evars

\* The range loop ends: the receive channel is closed and drained.
ReceiveClosed ==
    /\ ReceiverWaits
    /\ out = <<>>
    /\ outClosed
    /\ rPc' = "done"
    /\ UNCHANGED <<fifo, chanCap, count, i, sPc, in, inClosed, out, outClosed,
                   data, qPc, k, received>>
    /\ UNCHANGED evars

QNext ==
    \/ SenderSend
    \/ SenderClose
    \/ ReadEmptyRecv
    \/ ReadEmptyClosed
    \/ SelectRecv
    \/ SelectClosed
    \/ SelectSend
    \/ WriteLoop
    \/ CloseOut
    \/ ReceiverLoop
    \/ Receive
    \/ ReceiveClosed

(***************************************************************************)
(* PART II - psync.go                                                      *)
(*                                                                         *)
(* File names are numbers, ordered as ioutil.ReadDir orders names; a path  *)
(* relative to src or dest is the sequence of its names ("" is <<>>,       *)
(* dir + "/" + fname is Append(dir, fname)).                               *)
(***************************************************************************)
\* Largest value of -threads the model runs with (the code allows 1..1024).
MaxThreads == 2
\* Capacity of dch and of wch.  The code's channels hold 100 entries
\* (psync.go lines 24-25); the model scales both down so that a full channel
\* and a blocked send are reached with a small tree.
QueueCap == 1

\* The kinds of source entries: f.IsDir(), a regular file, os.ModeSymlink, and
\* os.ModeDevice, os.ModeNamedPipe or os.ModeSocket.
Kinds == {"dir", "file", "link", "special"}

Parent(p) == SubSeq(p, 1, Len(p) - 1)

\* The names of the entries of directory d in the tree t (a function from paths to
\* something), unordered.
Names(t, d) == {p[Len(p)] : p \in {q \in DOMAIN t : Len(q) = Len(d) + 1 /\ Parent(q) = d}}

RECURSIVE Sorted(_)
\* The numbers of S in ascending order.
Sorted(S) ==
    IF S = {} THEN <<>>
    ELSE LET m == CHOOSE x \in S : \A y \in S : x <= y
         IN  <<m>> \o Sorted(S \ {m})

\* A function like f, with x mapped to v.
Put(f, x, v) == [y \in DOMAIN f \cup {x} |-> IF y = x THEN v ELSE f[y]]

\* A bag like b with one more copy of x.
AddOne(b, x) == Put(b, x, IF x \in DOMAIN b THEN b[x] + 1 ELSE 1)

\* Copies of x in bag b.
CountOf(b, x) == IF x \in DOMAIN b THEN b[x] ELSE 0

\* The empty function (an empty bag, an empty map).
Empty == [x \in {} |-> 0]

------------------------------------------------------------------------------
(* Source trees, initial destinations and failing operations the model runs *)
(* with.                                                                    *)

\* The source root holds: 1/ (with file 1/1 and directory 1/2/), file 2,
\* 3/ (with link 3/1, named pipe 3/2 and file 3/3).
TreeMixed ==
    [p \in {<<1>>, <<1, 1>>, <<1, 2>>, <<2>>, <<3>>, <<3, 1>>, <<3, 2>>, <<3, 3>>} |->
        CASE p = <<1>> -> "dir"
          [] p = <<1, 1>> -> "file"
          [] p = <<1, 2>> -> "dir"
          [] p = <<2>> -> "file"
          [] p = <<3>> -> "dir"
          [] p = <<3, 1>> -> "link"
          [] p = <<3, 2>> -> "special"
          [] p = <<3, 3>> -> "file"]

\* The source root holds four directories, the first with a subdirectory.
TreeWide ==
    [p \in {<<1>>, <<1, 1>>, <<2>>, <<3>>, <<4>>} |-> "dir"]

Trees == {TreeMixed, TreeWide}

\* A destination entry: its kind, where its content comes from ("src": copied in
\* full or created by this run, "part": a copy that failed midway, "over": an
\* older file overwritten without truncation, "old": untouched by this run), and
\* whether owner and timestamps of the source entry were applied to it.
Entry(kind, content) == [kind |-> kind, data |-> content, own |-> FALSE, tim |-> FALSE]

\* The destination root, present in every destination (prepareDestDir).
DestEmpty == [p \in {<<>>} |-> Entry("dir", "old")]

\* A destination that already holds directory 1/, file 2 and a file named 3.
DestSome ==
    [p \in {<<>>, <<1>>, <<2>>, <<3>>} |->
        IF p \in {<<>>, <<1>>} THEN Entry("dir", "old") ELSE Entry("file", "old")]

Dests == {DestEmpty, DestSome}

\* The destination a complete run over the tree t left behind: the root and
\* every directory, file and link of t.
DestPrior(t) ==
    [p \in {<<>>} \cup {q \in DOMAIN t : t[q] # "special"} |->
        Entry(IF p = <<>> THEN "dir" ELSE t[p], "old")]

\* A destination whose entries are of another kind than the source entries
\* of the same name: a directory named 2, and in 3/ two files named 1 and 2.
DestOdd ==
    [p \in {<<>>, <<2>>, <<3>>, <<3, 1>>, <<3, 2>>} |->
        IF Len(p) = 2 THEN Entry("file", "old") ELSE Entry("dir", "old")]

\* No destination at all, and a destination that is a file.
DestMissing == [p \in {} |-> Entry("dir", "old")]
DestFile == [p \in {<<>>} |-> Entry("file", "old")]

\* Sets of file system operations that fail, each <<operation, path>>: none;
\* the listing of a source and of a destination directory and the copy of a
\* file; failures of single entries and of the attribute calls; the listing of
\* the destination root and the reading of a file and of a link; the listing
\* of one destination directory, nothing else failing; the creation of one
\* directory, nothing else failing.
FailSets ==
    { {},
      {<<"readdst", <<1>>>>},
      {<<"mkdir", <<1>>>>},
      {<<"readsrc", <<3>>>>, <<"readdst", <<1>>>>},
      {<<"readsrc", <<1>>>>, <<"readdst", <<3>>>>, <<"copy", <<2>>>>},
      {<<"mkdir", <<1, 2>>>>, <<"create", <<1, 1>>>>, <<"symlink", <<3, 1>>>>,
       <<"stat", <<>>>>, <<"chown", <<1>>>>, <<"chtimes", <<2>>>>},
      {<<"readdst", <<>>>>, <<"open", <<2>>>>, <<"readlink", <<3, 1>>>>} }

\* Failures of the calls of prepareDestDir: os.Stat(dest), os.MkdirAll(dest).
PreflightFailSets == { {<<"statdest", <<>>>>}, {<<"mkdirall", <<>>>>} }

\* The -threads default and the largest -threads that flags() accepts.
DefaultThreads == 16
LimitThreads == 1024

\* The values of -threads the model starts with: none given or 0, the numbers
\* of copy threads the model runs, the largest accepted, the first rejected.
Requested == {0} \cup 1..MaxThreads \cup {LimitThreads, LimitThreads + 1}

------------------------------------------------------------------------------
\* The copy threads started (lines 55-57).
Workers == DOMAIN pc

\* The wide tree holds directories only and is there to fill the channels
\* and the work list: it is run without failing operations (the mixed tree
\* has them), and without the options that concern attributes, warnings and
\* progress lines.
WideRun ==
    /\ dst0 \in Dests
    /\ fail = {}
    /\ ~optOwner
    /\ ~optQuiet
    /\ ~optVerbose

\* A run that passes flags() and prepareDestDir() with a destination root
\* that is there, and starts a number of copy threads the model runs.
PlainRun ==
    /\ argsOk
    /\ optThreads \in 1..MaxThreads
    /\ ~optCreate
    /\ dst0 \notin {DestMissing, DestFile}
    /\ fail \in FailSets

\* The runs of the model.  Every combination is a run the program can be
\* started with; the model takes the failing operations with the two first
\* destinations, the other destinations without failures, what concerns
\* flags() and prepareDestDir() with the mixed tree and few options, and
\* -owner without -times or -times without -owner with the plain copy of the
\* mixed tree, with and without failing attribute calls.
Runs ==
    /\ src = TreeWide => (PlainRun /\ WideRun)
    /\ optTimes # optOwner =>
          /\ PlainRun
          /\ src = TreeMixed
          /\ dst0 = DestEmpty
          /\ ~optSync /\ ~optQuiet /\ ~optVerbose
          /\ fail = {} \/ <<"chown", <<1>>>> \in fail
    /\ dst0 \in {DestPrior(src), DestOdd} \ Dests => fail = {}
    /\ optVerbose => (fail = {} /\ ~optOwner)
    /\ ~PlainRun =>
          /\ ~optSync /\ ~optOwner /\ ~optQuiet /\ ~optVerbose
          /\ dst0 \in {DestEmpty, DestMissing, DestFile}
          /\ fail \in {{}} \cup PreflightFailSets
          /\ optCreate => <<"statdest", <<>>>> \notin fail
          /\ (~argsOk \/ optThreads \notin 1..MaxThreads) => (dst0 = DestEmpty /\ fail = {} /\ ~optCreate)

\* State when main starts.
EInit ==
    /\ src \in Trees
    /\ dst0 \in Dests \cup {DestPrior(src), DestOdd, DestMissing, DestFile}
    /\ dst = dst0
    /\ fail \in FailSets \cup PreflightFailSets
    /\ argsOk \in BOOLEAN
    /\ optThreads \in Requested
    /\ optVerbose \in BOOLEAN
    /\ optCreate \in BOOLEAN
    /\ optSync \in BOOLEAN
    /\ optOwner \in BOOLEAN
    /\ optTimes \in BOOLEAN
    /\ optQuiet \in BOOLEAN
    /\ Runs
    /\ mainPc = "flags"
    /\ wg = 0
    /\ dch = <<>>
    /\ wch = <<>>
    /\ worklist = <<>>
    /\ pc = Empty
    /\ dir = Empty
    /\ files = Empty
    /\ desthash = Empty
    /\ stderr = Empty
    /\ stdout = Empty
    /\ sent = Empty
    /\ retrieved = Empty
    /\ completed = Empty

\* The variables of part II at rest (used by the specifications of part I).
EIdle ==
    /\ src = Empty
    /\ dst0 = Empty
    /\ dst = Empty
    /\ fail = {}
    /\ argsOk = FALSE
    /\ optThreads = 0
    /\ optVerbose = FALSE
    /\ optCreate = FALSE
    /\ optSync = FALSE
    /\ optOwner = FALSE
    /\ optTimes = FALSE
    /\ optQuiet = FALSE
    /\ mainPc = "exit"
    /\ wg = 0
    /\ dch = <<>>
    /\ wch = <<>>
    /\ worklist = <<>>
    /\ pc = Empty
    /\ dir = Empty
    /\ files = Empty
    /\ desthash = Empty
    /\ stderr = Empty
    /\ stdout = Empty
    /\ sent = Empty
    /\ retrieved = Empty
    /\ completed = Empty

\* The goroutines are started and the process is alive: main is past line 57
\* and has not returned.
Running == mainPc \in {"add", "send", "wait"}

------------------------------------------------------------------------------
(* The file system calls, as the code sees them.  A world W is a record of  *)
(* the destination tree (W.d) and the warnings written so far (W.e).        *)

Fails(op, p) == <<op, p>> \in fail

\* ioutil.ReadDir(src + d) can list d: d is the root or a directory of src.
IsSrcDir(d) == d = <<>> \/ (d \in DOMAIN src /\ src[d] = "dir")

\* ioutil.ReadDir(src + d) returns without error.
CanReadSrc(d) == IsSrcDir(d) /\ ~Fails("readsrc", d)

\* Mutant of ReadDir: the listing has the directories first, then the rest.
ReadDirDirsFirst(d) ==
    Sorted({n \in Names(src, d) : src[Append(d, n)] = "dir"})
        \o Sorted({n \in Names(src, d) : src[Append(d, n)] # "dir"})

\* ioutil.ReadDir(src + d): the names in d, sorted by file name.
ReadDir(d) == Sorted(Names(src, d))

\* ioutil.ReadDir(dest + d) can list d in the destination tree t.
IsDestDir(t, d) == d \in DOMAIN t /\ t[d].kind = "dir" /\ ~Fails("readdst", d)

\* The map built from ioutil.ReadDir(dest + d) in the destination tree t:
\* name -> kind (lines 182-184).
Snapshot(t, d) == [n \in Names(t, d) |-> t[Append(d, n)].kind]

\* fmt.Fprintf(os.Stderr, "WARNING - ...") under `if !optQuiet`.
Warning(e, msg, p) == IF optQuiet THEN e ELSE AddOne(e, <<msg, p>>)

\* fmt.Printf("[%d] ...") under `if optVerbose`.
Progress(o, msg, p) == IF optVerbose THEN AddOne(o, <<msg, p>>) ELSE o

\* Mutant of MkdirOk: a directory that is there already is no error (as with
\* os.MkdirAll).
MkdirOkIfThere(d, p) ==
    /\ ~Fails("mkdir", p)
    /\ IF p \in DOMAIN d THEN d[p].kind = "dir" ELSE TRUE
    /\ Parent(p) \in DOMAIN d
    /\ d[Parent(p)].kind = "dir"

\* os.Mkdir(dest + p, perm) succeeds: nothing is at p yet and its parent is a
\* directory.
MkdirOk(d, p) ==
    /\ ~Fails("mkdir", p)
    /\ p \notin DOMAIN d
    /\ Parent(p) \in DOMAIN d
    /\ d[Parent(p)].kind = "dir"

\* func preserveOwner(name, f, ftype).  os.Chown follows a symbolic link that
\* is in the way; syscall.Lchown acts on the link itself.
preserveOwner(W, name, ftype) ==
    IF Fails("chown", name) \/ name \notin DOMAIN W.d
       THEN [W EXCEPT !.e = Warning(W.e, "chown", name)]
       ELSE IF W.d[name].kind = "link" /\ ftype # "link"
               THEN W
               ELSE [W EXCEPT !.d = [W.d EXCEPT ![name].own = TRUE]]

\* func preserveTimes(name, f, ftype).  os.Chtimes follows symbolic links.
preserveTimes(W, name, ftype) ==
    IF Fails("chtimes", name) \/ name \notin DOMAIN W.d
       THEN [W EXCEPT !.e = Warning(W.e, "chtimes", name)]
       ELSE IF W.d[name].kind = "link"
               THEN W
               ELSE [W EXCEPT !.d = [W.d EXCEPT ![name].tim = TRUE]]

\* Mutant of Preserve: each call is made under the other call's option.
PreserveSwapped(W, name, ftype) ==
    LET W1 == IF optTimes THEN preserveOwner(W, name, ftype) ELSE W
    IN  IF optOwner THEN preserveTimes(W1, name, ftype) ELSE W1

\* `if optOwner { preserveOwner(...) }; if optTimes { preserveTimes(...) }`
Preserve(W, name, ftype) ==
    LET W1 == IF optOwner THEN preserveOwner(W, name, ftype) ELSE W
    IN  IF optTimes THEN preserveTimes(W1, name, ftype) ELSE W1

\* Mutant of CopyLink: symbolic links are passed over like special files.
CopyLinkSkipped(W, file) == W

\* copyFile, case symbolic link (lines 252-280): timestamps are not preserved.
CopyLink(W, file) ==
    IF Fails("readlink", file)
       THEN [W EXCEPT !.e = Warning(W.e, "readlink", file)]
       ELSE IF \/ Fails("symlink", file)
               \/ file \in DOMAIN W.d
               \/ Parent(file) \notin DOMAIN W.d
               THEN [W EXCEPT !.e = Warning(W.e, "symlink", file)]
               ELSE LET W1 == [W EXCEPT !.d = Put(W.d, file, Entry("link", "src"))]
                    IN  IF optOwner THEN preserveOwner(W1, file, "link") ELSE W1

\* os.OpenFile(dest + file, O_WRONLY|O_CREATE, perm) succeeds: the parent is
\* there and no directory is in the way.
OpenFileOk(d, file) ==
    /\ ~Fails("create", file)
    /\ Parent(file) \in DOMAIN d
    /\ d[Parent(file)].kind = "dir"
    /\ file \in DOMAIN d => d[file].kind # "dir"

\* The destination tree after the file was opened and content was written:
\* a new file, an older file written over (no O_TRUNC), or, through an older
\* symbolic link, a file elsewhere.
Written(d, file, content) ==
    IF file \notin DOMAIN d
       THEN Put(d, file, Entry("file", content))
       ELSE IF d[file].kind = "file"
               THEN [d EXCEPT ![file].data = IF content = "src" THEN "over" ELSE content]
               ELSE d

\* Mutant of CopyRegular: the `return` after a failed io.CopyBuffer is
\* missing, owner and timestamps are applied to the partial copy.
CopyRegularNoReturn(W, file) ==
    IF Fails("open", file)
       THEN [W EXCEPT !.e = Warning(W.e, "open", file)]
       ELSE IF ~OpenFileOk(W.d, file)
               THEN [W EXCEPT !.e = Warning(W.e, "create", file)]
               ELSE IF Fails("copy", file)
                       THEN Preserve([d |-> Written(W.d, file, "part"),
                                      e |-> Warning(W.e, "create", file)],
                                     file, "file")
                       ELSE Preserve([W EXCEPT !.d = Written(W.d, file, "src")],
                                     file, "file")

\* copyFile, default case: a regular file (lines 285-322).
CopyRegular(W, file) ==
    IF Fails("open", file)
       THEN [W EXCEPT !.e = Warning(W.e, "open", file)]
       ELSE IF ~OpenFileOk(W.d, file)
               THEN [W EXCEPT !.e = Warning(W.e, "create", file)]
               ELSE IF Fails("copy", file)
                       THEN [d |-> Written(W.d, file, "part"),
                             e |-> Warning(W.e, "create", file)]
                       ELSE Preserve([W EXCEPT !.d = Written(W.d, file, "src")],
                                     file, "file")

\* Mutant of copyFile: without the case of the special files, which fall to
\* the default case.
copyFileNoSpecialCase(W, file, kind) ==
    IF kind = "link" THEN CopyLink(W, file) ELSE CopyRegular(W, file)

\* func copyFile(id, file, f), f.Mode() being the kind of the source entry.
copyFile(W, file, kind) ==
    CASE kind = "link" -> CopyLink(W, file)
      [] kind = "special" -> W
      [] OTHER -> CopyRegular(W, file)

------------------------------------------------------------------------------
(* func main, from line 59.                                                 *)

\* func flags: `flag.NArg() != 2 || ... || optThreads > 1024`: usage() prints
\* and calls os.Exit(1).  (flag.UintVar holds an unsigned number: a -threads
\* value that is none never reaches optThreads.)
FlagsUsage ==
    /\ mainPc = "flags"
    /\ ~argsOk \/ optThreads > LimitThreads
    /\ stdout' = AddOne(stdout, <<"Usage", <<>>>>)
    /\ mainPc' = "exit1"
    /\ UNCHANGED <<inputs, dst, wg, dch, wch, worklist, pc, dir, files, desthash,
                   stderr, sent, retrieved, completed>>
    /\ UNCHANGED qvars

\* func flags: the command line is accepted; `if optThreads == 0
\* { optThreads = 16 }` (lines 82-84).
FlagsAccepted ==
    /\ mainPc = "flags"
    /\ ~(~argsOk \/ optThreads > LimitThreads)
    /\ optThreads' = IF optThreads = 0 THEN DefaultThreads ELSE optThreads
    /\ mainPc' = "prepare"
    /\ UNCHANGED <<src, dst0, fail, argsOk, optVerbose, optCreate, optSync, optOwner,
                   optTimes, optQuiet>>
    /\ UNCHANGED <<dst, wg, dch, wch, worklist, pc, dir, files, desthash,
                   stderr, stdout, sent, retrieved, completed>>
    /\ UNCHANGED qvars

\* func prepareDestDir on the destination tree d: the error it ends the
\* process with ("none": it returns), and the destination tree it leaves.
prepareDestDir(d) ==
    IF optCreate
       THEN IF Fails("mkdirall", <<>>) \/ (<<>> \in DOMAIN d /\ d[<<>>].kind # "dir")
               THEN [err |-> "unable to create destination dir", d |-> d]
               ELSE [err |-> "none",
                     d |-> IF <<>> \in DOMAIN d THEN d ELSE Put(d, <<>>, Entry("dir", "src"))]
       ELSE IF <<>> \notin DOMAIN d
               THEN [err |-> "destination directory does not exist", d |-> d]
               ELSE IF Fails("statdest", <<>>)
                       THEN [err |-> "cannot stat() destination directory", d |-> d]
                       ELSE IF d[<<>>].kind # "dir"
                               THEN [err |-> "destination exists, but is not a directory", d |-> d]
                               ELSE [err |-> "none", d |-> d]

\* Mutant of PrepareFailed: the error is written, os.Exit(1) is missing.
PrepareFailedGoesOn ==
    /\ mainPc = "prepare"
    /\ prepareDestDir(dst).err # "none"
    /\ stderr' = AddOne(stderr, <<prepareDestDir(dst).err, <<>>>>)
    /\ mainPc' = "start"
    /\ UNCHANGED <<inputs, dst, wg, dch, wch, worklist, pc, dir, files, desthash,
                   stdout, sent, retrieved, completed>>
    /\ UNCHANGED qvars

\* prepareDestDir() writes "ERROR - ..." and calls os.Exit(1).
PrepareFailed ==
    /\ mainPc = "prepare"
    /\ prepareDestDir(dst).err # "none"
    /\ stderr' = AddOne(stderr, <<prepareDestDir(dst).err, <<>>>>)
    /\ mainPc' = "exit1"
    /\ UNCHANGED <<inputs, dst, wg, dch, wch, worklist, pc, dir, files, desthash,
                   stdout, sent, retrieved, completed>>
    /\ UNCHANGED qvars

\* prepareDestDir() returns.
PrepareDone ==
    /\ mainPc = "prepare"
    /\ prepareDestDir(dst).err = "none"
    /\ dst' = prepareDestDir(dst).d
    /\ mainPc' = "start"
    /\ UNCHANGED <<inputs, wg, dch, wch, worklist, pc, dir, files, desthash,
                   stderr, stdout, sent, retrieved, completed>>
    /\ UNCHANGED qvars

\* `go dispatcher()` and `go copyDir(i)` for i < optThreads (lines 47-57).
\* The model runs up to MaxThreads copy threads.
Start ==
    /\ mainPc = "start"
    /\ optThreads <= MaxThreads
    /\ pc' = [w \in 0..(optThreads - 1) |-> "recv"]
    /\ dir' = [w \in 0..(optThreads - 1) |-> <<>>]
    /\ files' = [w \in 0..(optThreads - 1) |-> <<>>]
    /\ desthash' = [w \in 0..(optThreads - 1) |-> Empty]
    /\ mainPc' = "add"
    /\ UNCHANGED <<inputs, dst, wg, dch, wch, worklist,
                   stderr, stdout, sent, retrieved, completed>>
    /\ UNCHANGED qvars

\* Mutant of MainAdd: the root is submitted without wg.Add(1) before it.
MainAddMissing ==
    /\ mainPc = "add"
    /\ mainPc' = "send"
    /\ UNCHANGED <<inputs, dst, wg, dch, wch, worklist, pc, dir, files, desthash,
                   stderr, stdout, sent, retrieved, completed>>
    /\ UNCHANGED qvars

\* wg.Add(1)
MainAdd ==
    /\ mainPc = "add"
    /\ wg' = wg + 1
    /\ mainPc' = "send"
    /\ UNCHANGED <<inputs, dst, dch, wch, worklist, pc, dir, files, desthash,
                   stderr, stdout, sent, retrieved, completed>>
    /\ UNCHANGED qvars

\* dch <- ""
MainSend ==
    /\ mainPc = "send"
    /\ Len(dch) < QueueCap
    /\ dch' = Append(dch, <<>>)
    /\ sent' = AddOne(sent, <<>>)
    /\ mainPc' = "wait"
    /\ UNCHANGED <<inputs, dst, wg, wch, worklist, pc, dir, files, desthash,
                   stderr, stdout, retrieved, completed>>
    /\ UNCHANGED qvars

\* wg.Wait() returns, main returns and the process ends.
MainWait ==
    /\ mainPc = "wait"
    /\ wg = 0
    /\ mainPc' = "exit"
    /\ UNCHANGED <<inputs, dst, wg, dch, wch, worklist, pc, dir, files, desthash,
                   stderr, stdout, sent, retrieved, completed>>
    /\ UNCHANGED qvars

------------------------------------------------------------------------------
(* func dispatcher                                                          *)

\* len(worklist) == 0: `dir = <-dch; worklist = append(worklist, dir)`
DispatcherRecv ==
    /\ Running
    /\ Len(worklist) = 0
    /\ dch # <<>>
    /\ worklist' = Append(worklist, Head(dch))
    /\ dch' = Tail(dch)
    /\ UNCHANGED <<inputs, dst, mainPc, wg, wch, pc, dir, files, desthash,
                   stderr, stdout, sent, retrieved, completed>>
    /\ UNCHANGED qvars

\* Mutant of DispatcherSelectRecv: a dispatcher that, once it holds work, only
\* offers it on wch and no longer takes submissions (a bounded queue).
DispatcherSelectRecvMissing == FALSE /\ UNCHANGED vars

\* Mutant of DispatcherSelectRecv: a dispatcher that, holding work, takes a
\* submission only when the worker channel cannot take the hand-out.
DispatcherSelectRecvLast ==
    /\ Running
    /\ Len(worklist) # 0
    /\ Len(wch) = QueueCap
    /\ dch # <<>>
    /\ worklist' = Append(worklist, Head(dch))
    /\ dch' = Tail(dch)
    /\ UNCHANGED <<inputs, dst, mainPc, wg, wch, pc, dir, files, desthash,
                   stderr, stdout, sent, retrieved, completed>>
    /\ UNCHANGED qvars

\* select, `case dir = <-dch: worklist = append(worklist, dir)`
DispatcherSelectRecv ==
    /\ Running
    /\ Len(worklist) # 0
    /\ dch # <<>>
    /\ worklist' = Append(worklist, Head(dch))
    /\ dch' = Tail(dch)
    /\ UNCHANGED <<inputs, dst, mainPc, wg, wch, pc, dir, files, desthash,
                   stderr, stdout, sent, retrieved, completed>>
    /\ UNCHANGED qvars

\* Mutant of DispatcherSelectSend: the work list is treated first-in-first-out.
DispatcherSelectSendOldest ==
    /\ Running
    /\ Len(worklist) # 0
    /\ Len(wch) < QueueCap
    /\ wch' = Append(wch, worklist[1])
    /\ worklist' = Tail(worklist)
    /\ UNCHANGED <<inputs, dst, mainPc, wg, dch, pc, dir, files, desthash,
                   stderr, stdout, sent, retrieved, completed>>
    /\ UNCHANGED qvars

\* Mutant of DispatcherSelectSend: the element handed out stays in the work list.
DispatcherSelectSendKeeps ==
    /\ Running
    /\ Len(worklist) # 0
    /\ Len(wch) < QueueCap
    /\ wch' = Append(wch, worklist[Len(worklist)])
    /\ UNCHANGED <<inputs, dst, mainPc, wg, dch, worklist, pc, dir, files, desthash,
                   stderr, stdout, sent, retrieved, completed>>
    /\ UNCHANGED qvars

\* select, `case wch <- worklist[len(worklist)-1]: worklist = worklist[:len(worklist)-1]`
DispatcherSelectSend ==
    /\ Running
    /\ Len(worklist) # 0
    /\ Len(wch) < QueueCap
    /\ wch' = Append(wch, worklist[Len(worklist)])
    /\ worklist' = SubSeq(worklist, 1, Len(worklist) - 1)
    /\ UNCHANGED <<inputs, dst, mainPc, wg, dch, pc, dir, files, desthash,
                   stderr, stdout, sent, retrieved, completed>>
    /\ UNCHANGED qvars

dispatcher ==
    \/ DispatcherRecv
    \/ DispatcherSelectRecv
    \/ DispatcherSelectSend

------------------------------------------------------------------------------
(* func copyDir(id), w being the worker's id.                               *)

\* The entry the range loop is at, and its path relative to src and dest.
fname(w) == Head(files[w])
EntryPath(w) == Append(dir[w], fname(w))

\* Mutant of Retrieve: a copy thread in its range loop takes the next job
\* from wch and leaves the one it has.
RetrieveAnytime(w) ==
    /\ Running
    /\ pc[w] \in {"recv", "loop"}
    /\ wch # <<>>
    /\ dir' = [dir EXCEPT ![w] = Head(wch)]
    /\ wch' = Tail(wch)
    /\ retrieved' = AddOne(retrieved, Head(wch))
    /\ stdout' = Progress(stdout, "Handling directory", Head(wch))
    /\ pc' = [pc EXCEPT ![w] = "readsrc"]
    /\ UNCHANGED <<inputs, dst, mainPc, wg, dch, worklist, files, desthash,
                   stderr, sent, completed>>
    /\ UNCHANGED qvars

\* `dir := <-wch`, and in verbose mode the line "Handling directory"
\* (lines 154-157).
Retrieve(w) ==
    /\ Running
    /\ pc[w] = "recv"
    /\ wch # <<>>
    /\ dir' = [dir EXCEPT ![w] = Head(wch)]
    /\ wch' = Tail(wch)
    /\ retrieved' = AddOne(retrieved, Head(wch))
    /\ stdout' = Progress(stdout, "Handling directory", Head(wch))
    /\ pc' = [pc EXCEPT ![w] = "readsrc"]
    /\ UNCHANGED <<inputs, dst, mainPc, wg, dch, worklist, files, desthash,
                   stderr, sent, completed>>
    /\ UNCHANGED qvars

\* `files, err := ioutil.ReadDir(src + dir)` succeeded; desthash is made.
ReadSrc(w) ==
    /\ Running
    /\ pc[w] = "readsrc"
    /\ CanReadSrc(dir[w])
    /\ files' = [files EXCEPT ![w] = ReadDir(dir[w])]
    /\ desthash' = [desthash EXCEPT ![w] = Empty]
    /\ pc' = [pc EXCEPT ![w] = IF optSync THEN "readdst" ELSE "loop"]
    /\ UNCHANGED <<inputs, dst, mainPc, wg, dch, wch, worklist, dir,
                   stderr, stdout, sent, retrieved, completed>>
    /\ UNCHANGED qvars

\* Mutant of ReadSrcFailed: the failure path continues without wg.Done().
ReadSrcFailedNoDone(w) ==
    /\ Running
    /\ pc[w] = "readsrc"
    /\ ~CanReadSrc(dir[w])
    /\ stderr' = Warning(stderr, "readsrc", dir[w])
    /\ pc' = [pc EXCEPT ![w] = "recv"]
    /\ UNCHANGED <<inputs, dst, mainPc, wg, dch, wch, worklist, dir, files, desthash,
                   stdout, sent, retrieved, completed>>
    /\ UNCHANGED qvars

\* Mutant of ReadSrcFailed: after the warning the job goes on, with no
\* entries, to the attributes of the directory and to its end.
ReadSrcFailedGoesOn(w) ==
    /\ Running
    /\ pc[w] = "readsrc"
    /\ ~CanReadSrc(dir[w])
    /\ stderr' = Warning(stderr, "readsrc", dir[w])
    /\ files' = [files EXCEPT ![w] = <<>>]
    /\ pc' = [pc EXCEPT ![w] = "loop"]
    /\ UNCHANGED <<inputs, dst, mainPc, wg, dch, wch, worklist, dir, desthash,
                   stdout, sent, retrieved, completed>>
    /\ UNCHANGED qvars

\* ioutil.ReadDir(src + dir) failed: warning, wg.Done(), continue (lines 161-167).
ReadSrcFailed(w) ==
    /\ Running
    /\ pc[w] = "readsrc"
    /\ ~CanReadSrc(dir[w])
    /\ stderr' = Warning(stderr, "readsrc", dir[w])
    /\ wg' = wg - 1
    /\ completed' = AddOne(completed, dir[w])
    /\ pc' = [pc EXCEPT ![w] = "recv"]
    /\ UNCHANGED <<inputs, dst, mainPc, dch, wch, worklist, dir, files, desthash,
                   stdout, sent, retrieved>>
    /\ UNCHANGED qvars

\* Mutant of ReadDst: desthash is one map shared by all copy threads.
ReadDstShared(w) ==
    /\ Running
    /\ pc[w] = "readdst"
    /\ IsDestDir(dst, dir[w])
    /\ desthash' = [v \in Workers |-> Snapshot(dst, dir[w])]
    /\ pc' = [pc EXCEPT ![w] = "loop"]
    /\ UNCHANGED <<inputs, dst, mainPc, wg, dch, wch, worklist, dir, files,
                   stderr, stdout, sent, retrieved, completed>>
    /\ UNCHANGED qvars

\* Sync mode: ioutil.ReadDir(dest + dir) succeeded, its entries are hashed.
ReadDst(w) ==
    /\ Running
    /\ pc[w] = "readdst"
    /\ IsDestDir(dst, dir[w])
    /\ desthash' = [desthash EXCEPT ![w] = Snapshot(dst, dir[w])]
    /\ pc' = [pc EXCEPT ![w] = "loop"]
    /\ UNCHANGED <<inputs, dst, mainPc, wg, dch, wch, worklist, dir, files,
                   stderr, stdout, sent, retrieved, completed>>
    /\ UNCHANGED qvars

\* Mutant of ReadDstFailed: after the warning the job goes on as in non-sync
\* mode, with an empty desthash.
ReadDstFailedGoesOn(w) ==
    /\ Running
    /\ pc[w] = "readdst"
    /\ ~IsDestDir(dst, dir[w])
    /\ stderr' = Warning(stderr, "readdst", dir[w])
    /\ pc' = [pc EXCEPT ![w] = "loop"]
    /\ UNCHANGED <<inputs, dst, mainPc, wg, dch, wch, worklist, dir, files, desthash,
                   stdout, sent, retrieved, completed>>
    /\ UNCHANGED qvars

\* Mutant of ReadDstFailed: after wg.Done() the `continue` is missing and the
\* job goes on with an empty desthash.
ReadDstFailedFallsThrough(w) ==
    /\ Running
    /\ pc[w] = "readdst"
    /\ ~IsDestDir(dst, dir[w])
    /\ stderr' = Warning(stderr, "readdst", dir[w])
    /\ wg' = wg - 1
    /\ completed' = AddOne(completed, dir[w])
    /\ pc' = [pc EXCEPT ![w] = "loop"]
    /\ UNCHANGED <<inputs, dst, mainPc, dch, wch, worklist, dir, files, desthash,
                   stdout, sent, retrieved>>
    /\ UNCHANGED qvars

\* Sync mode: ioutil.ReadDir(dest + dir) failed: warning, wg.Done(), continue
\* (lines 173-180).
ReadDstFailed(w) ==
    /\ Running
    /\ pc[w] = "readdst"
    /\ ~IsDestDir(dst, dir[w])
    /\ stderr' = Warning(stderr, "readdst", dir[w])
    /\ wg' = wg - 1
    /\ completed' = AddOne(completed, dir[w])
    /\ pc' = [pc EXCEPT ![w] = "recv"]
    /\ UNCHANGED <<inputs, dst, mainPc, dch, wch, worklist, dir, files, desthash,
                   stdout, sent, retrieved>>
    /\ UNCHANGED qvars

\* The range loop is at an entry with f.IsDir().
AtDir(w) ==
    /\ Running
    /\ pc[w] = "loop"
    /\ files[w] # <<>>
    /\ src[EntryPath(w)] = "dir"

\* The range loop is at an entry that is a file, a link or a special file.
AtFile(w) ==
    /\ Running
    /\ pc[w] = "loop"
    /\ files[w] # <<>>
    /\ src[EntryPath(w)] # "dir"

\* desthash[name]: the kind of the destination entry, "nil" when the map has
\* no such key.
Lookup(h, name) == IF name \in DOMAIN h THEN h[name] ELSE "nil"

\* Mutant of MustMkdir: any entry of that name in the snapshot, a directory
\* or not, keeps os.Mkdir from being called.
MustMkdirIfAbsent(h, name) ==
    \/ ~optSync
    \/ Lookup(h, name) = "nil"

\* `!optSync || desthash[fname] == nil || !desthash[fname].IsDir()` (line 195),
\* h being desthash.
MustMkdir(h, name) ==
    \/ ~optSync
    \/ Lookup(h, name) = "nil"
    \/ Lookup(h, name) # "dir"

\* Mutant of MustCopy: the file branch tests what the directory branch tests.
MustCopyUnlessDir(h, name) == MustMkdir(h, name)

\* Mutant of MustCopy: the file branch does not look at desthash.
MustCopyAlways(h, name) == TRUE

\* `!optSync || desthash[fname] == nil` (line 214), h being desthash.
MustCopy(h, name) ==
    \/ ~optSync
    \/ Lookup(h, name) = "nil"

\* Lines 223-239: os.Stat(src + d), then owner and timestamps of dest + d.
DirAttributes(W, d) ==
    IF Fails("stat", d) \/ ~IsSrcDir(d)
       THEN [W EXCEPT !.e = Warning(W.e, "stat", d)]
       ELSE Preserve(W, d, "directory")

\* Mutant of DirAdd: the subdirectory is submitted without wg.Add(1).
DirAddNoCount(w) ==
    /\ AtDir(w)
    /\ MustMkdir(desthash[w], fname(w)) => MkdirOk(dst, EntryPath(w))
    /\ dst' = IF MustMkdir(desthash[w], fname(w))
                 THEN Put(dst, EntryPath(w), Entry("dir", "src")) ELSE dst
    /\ pc' = [pc EXCEPT ![w] = "send"]
    /\ UNCHANGED <<inputs, mainPc, wg, dch, wch, worklist, dir, files, desthash,
                   stderr, stdout, sent, retrieved, completed>>
    /\ UNCHANGED qvars

\* Mutant of DirAdd: owner and timestamps are applied to the subdirectory
\* right after os.Mkdir created it.
DirAddPreserves(w) ==
    /\ AtDir(w)
    /\ MustMkdir(desthash[w], fname(w)) => MkdirOk(dst, EntryPath(w))
    /\ LET W == IF MustMkdir(desthash[w], fname(w))
                   THEN Preserve([d |-> Put(dst, EntryPath(w), Entry("dir", "src")), e |-> stderr],
                                 EntryPath(w), "directory")
                   ELSE [d |-> dst, e |-> stderr]
       IN  /\ dst' = W.d
           /\ stderr' = W.e
    /\ wg' = wg + 1
    /\ pc' = [pc EXCEPT ![w] = "send"]
    /\ UNCHANGED <<inputs, mainPc, dch, wch, worklist, dir, files, desthash,
                   stdout, sent, retrieved, completed>>
    /\ UNCHANGED qvars

\* A directory entry: os.Mkdir succeeded or was not needed; wg.Add(1)
\* (lines 193-208).
DirAdd(w) ==
    /\ AtDir(w)
    /\ MustMkdir(desthash[w], fname(w)) => MkdirOk(dst, EntryPath(w))
    /\ dst' = IF MustMkdir(desthash[w], fname(w)) THEN Put(dst, EntryPath(w), Entry("dir", "src")) ELSE dst
    /\ wg' = wg + 1
    /\ pc' = [pc EXCEPT ![w] = "send"]
    /\ UNCHANGED <<inputs, mainPc, dch, wch, worklist, dir, files, desthash,
                   stderr, stdout, sent, retrieved, completed>>
    /\ UNCHANGED qvars

\* Mutant of DirSkip: after the warning the range loop is left (break, not
\* continue).
DirSkipBreaks(w) ==
    /\ AtDir(w)
    /\ MustMkdir(desthash[w], fname(w))
    /\ ~MkdirOk(dst, EntryPath(w))
    /\ stderr' = Warning(stderr, "mkdir", EntryPath(w))
    /\ files' = [files EXCEPT ![w] = <<>>]
    /\ UNCHANGED <<inputs, dst, mainPc, wg, dch, wch, worklist, pc, dir, desthash,
                   stdout, sent, retrieved, completed>>
    /\ UNCHANGED qvars

\* Mutant of DirSkip: the `continue` is inside the `if !optQuiet` block, so
\* that in quiet mode a failed os.Mkdir falls through to wg.Add(1) and the
\* send.
DirSkipQuietFallsThrough(w) ==
    /\ AtDir(w)
    /\ MustMkdir(desthash[w], fname(w))
    /\ ~MkdirOk(dst, EntryPath(w))
    /\ stderr' = Warning(stderr, "mkdir", EntryPath(w))
    /\ files' = IF optQuiet THEN files ELSE [files EXCEPT ![w] = Tail(files[w])]
    /\ wg' = IF optQuiet THEN wg + 1 ELSE wg
    /\ pc' = IF optQuiet THEN [pc EXCEPT ![w] = "send"] ELSE pc
    /\ UNCHANGED <<inputs, dst, mainPc, dch, wch, worklist, dir, desthash,
                   stdout, sent, retrieved, completed>>
    /\ UNCHANGED qvars

\* A directory entry: os.Mkdir failed: warning, continue (lines 198-204).
DirSkip(w) ==
    /\ AtDir(w)
    /\ MustMkdir(desthash[w], fname(w))
    /\ ~MkdirOk(dst, EntryPath(w))
    /\ stderr' = Warning(stderr, "mkdir", EntryPath(w))
    /\ files' = [files EXCEPT ![w] = Tail(files[w])]
    /\ UNCHANGED <<inputs, dst, mainPc, wg, dch, wch, worklist, pc, dir, desthash,
                   stdout, sent, retrieved, completed>>
    /\ UNCHANGED qvars

\* Mutant of DirSend: after the send the range loop stays at the same entry.
DirSendRepeats(w) ==
    /\ Running
    /\ pc[w] = "send"
    /\ Len(dch) < QueueCap
    /\ dch' = Append(dch, EntryPath(w))
    /\ sent' = AddOne(sent, EntryPath(w))
    /\ pc' = [pc EXCEPT ![w] = "loop"]
    /\ UNCHANGED <<inputs, dst, mainPc, wg, wch, worklist, dir, files, desthash,
                   stderr, stdout, retrieved, completed>>
    /\ UNCHANGED qvars

\* `dch <- dir + "/" + fname; continue` (lines 209-210)
DirSend(w) ==
    /\ Running
    /\ pc[w] = "send"
    /\ Len(dch) < QueueCap
    /\ dch' = Append(dch, EntryPath(w))
    /\ sent' = AddOne(sent, EntryPath(w))
    /\ files' = [files EXCEPT ![w] = Tail(files[w])]
    /\ pc' = [pc EXCEPT ![w] = "loop"]
    /\ UNCHANGED <<inputs, dst, mainPc, wg, wch, worklist, dir, desthash,
                   stderr, stdout, retrieved, completed>>
    /\ UNCHANGED qvars

\* A file, link or special entry: copyFile, unless sync mode finds the name
\* at the destination (lines 213-220).
FileEntry(w) ==
    /\ AtFile(w)
    /\ LET W == IF MustCopy(desthash[w], fname(w))
                   THEN copyFile([d |-> dst, e |-> stderr], EntryPath(w), src[EntryPath(w)])
                   ELSE [d |-> dst, e |-> stderr]
       IN  /\ dst' = W.d
           /\ stderr' = W.e
    /\ stdout' = IF MustCopy(desthash[w], fname(w))
                    THEN Progress(stdout, "Copying", EntryPath(w))
                    ELSE stdout
    /\ files' = [files EXCEPT ![w] = Tail(files[w])]
    /\ UNCHANGED <<inputs, mainPc, wg, dch, wch, worklist, pc, dir, desthash,
                   sent, retrieved, completed>>
    /\ UNCHANGED qvars

\* Mutant of DirAttr: a failed os.Stat ends the job without wg.Done().
DirAttrStopsOnError(w) ==
    /\ Running
    /\ pc[w] = "loop"
    /\ files[w] = <<>>
    /\ LET W == DirAttributes([d |-> dst, e |-> stderr], dir[w])
       IN  /\ dst' = W.d
           /\ stderr' = W.e
    /\ pc' = [pc EXCEPT ![w] = IF Fails("stat", dir[w]) THEN "recv" ELSE "done"]
    /\ UNCHANGED <<inputs, mainPc, wg, dch, wch, worklist, dir, files, desthash,
                   stdout, sent, retrieved, completed>>
    /\ UNCHANGED qvars

\* After the loop: os.Stat(src + dir), then owner and timestamps of the
\* destination directory (lines 223-239).
DirAttr(w) ==
    /\ Running
    /\ pc[w] = "loop"
    /\ files[w] = <<>>
    /\ LET W == DirAttributes([d |-> dst, e |-> stderr], dir[w])
       IN  /\ dst' = W.d
           /\ stderr' = W.e
    /\ pc' = [pc EXCEPT ![w] = "done"]
    /\ UNCHANGED <<inputs, mainPc, wg, dch, wch, worklist, dir, files, desthash,
                   stdout, sent, retrieved, completed>>
    /\ UNCHANGED qvars

\* Mutant of DirDone: the loop body ends without wg.Done().
DirDoneKeepsCount(w) ==
    /\ Running
    /\ pc[w] = "done"
    /\ stdout' = Progress(stdout, "Finished directory", dir[w])
    /\ completed' = AddOne(completed, dir[w])
    /\ pc' = [pc EXCEPT ![w] = "recv"]
    /\ UNCHANGED <<inputs, dst, mainPc, wg, dch, wch, worklist, dir, files, desthash,
                   stderr, sent, retrieved>>
    /\ UNCHANGED qvars

\* In verbose mode the line "Finished directory", then `wg.Done()` at the
\* end of the loop body (lines 240-243).
DirDone(w) ==
    /\ Running
    /\ pc[w] = "done"
    /\ stdout' = Progress(stdout, "Finished directory", dir[w])
    /\ wg' = wg - 1
    /\ completed' = AddOne(completed, dir[w])
    /\ pc' = [pc EXCEPT ![w] = "recv"]
    /\ UNCHANGED <<inputs, dst, mainPc, dch, wch, worklist, dir, files, desthash,
                   stderr, sent, retrieved>>
    /\ UNCHANGED qvars

copyDir(w) ==
    \/ Retrieve(w)
    \/ ReadSrc(w)
    \/ ReadSrcFailed(w)
    \/ ReadDst(w)
    \/ ReadDstFailed(w)
    \/ DirAdd(w)
    \/ DirSkip(w)
    \/ DirSend(w)
    \/ FileEntry(w)
    \/ DirAttr(w)
    \/ DirDone(w)

------------------------------------------------------------------------------
(* Specifications.                                                          *)

Init == QIdle /\ EInit

Next ==
    \/ FlagsUsage
    \/ FlagsAccepted
    \/ PrepareFailed
    \/ PrepareDone
    \/ Start
    \/ MainAdd
    \/ MainSend
    \/ MainWait
    \/ DispatcherRecv
    \/ DispatcherSelectRecv
    \/ DispatcherSelectSend
    \/ \E w \in Workers : Retrieve(w)
    \/ \E w \in Workers : ReadSrc(w)
    \/ \E w \in Workers : ReadSrcFailed(w)
    \/ \E w \in Workers : ReadDst(w)
    \/ \E w \in Workers : ReadDstFailed(w)
    \/ \E w \in Workers : DirAdd(w)
    \/ \E w \in Workers : DirSkip(w)
    \/ \E w \in Workers : DirSend(w)
    \/ \E w \in Workers : FileEntry(w)
    \/ \E w \in Workers : DirAttr(w)
    \/ \E w \in Workers : DirDone(w)

\* The engine of psync.go.
Spec == Init /\ [][Next]_vars

\* The steps of a run whose command line and destination root are accepted:
\* usage() and the os.Exit(1) of prepareDestDir are not among them.
PlainNext ==
    \/ FlagsAccepted
    \/ PrepareDone
    \/ Start
    \/ MainAdd
    \/ MainSend
    \/ MainWait
    \/ DispatcherRecv
    \/ DispatcherSelectRecv
    \/ DispatcherSelectSend
    \/ \E w \in Workers : Retrieve(w)
    \/ \E w \in Workers : ReadSrc(w)
    \/ \E w \in Workers : ReadSrcFailed(w)
    \/ \E w \in Workers : ReadDst(w)
    \/ \E w \in Workers : ReadDstFailed(w)
    \/ \E w \in Workers : DirAdd(w)
    \/ \E w \in Workers : DirSkip(w)
    \/ \E w \in Workers : DirSend(w)
    \/ \E w \in Workers : FileEntry(w)
    \/ \E w \in Workers : DirAttr(w)
    \/ \E w \in Workers : DirDone(w)

\* The steps of main and of copy thread w.
main ==
    \/ FlagsUsage
    \/ FlagsAccepted
    \/ PrepareFailed
    \/ PrepareDone
    \/ Start
    \/ MainAdd
    \/ MainSend
    \/ MainWait
Worker(w) == w \in Workers /\ copyDir(w)

\* The runs checked for progress are runs that get past flags() and
\* prepareDestDir() (PlainRun).  -owner, -times and -quiet decide no branch
\* that takes or leaves a job, so they are left off; the wide tree, which is
\* there to fill the channels, is copied to an empty destination.
FairInit ==
    /\ Init
    /\ PlainRun
    /\ dst0 \in Dests
    /\ ~optOwner
    /\ ~optTimes
    /\ ~optQuiet
    /\ ~optVerbose
    /\ src = TreeWide => (fail = {} /\ dst0 = DestEmpty /\ ~optSync)

\* The engine, the Go scheduler running main, the dispatcher and every copy
\* thread whenever they can take a step.
FairSpec ==
    /\ FairInit
    /\ [][PlainNext]_vars
    /\ WF_vars(main)
    /\ WF_vars(dispatcher)
    /\ \A w \in 0..(MaxThreads - 1) : WF_vars(Worker(w))

\* The runs over the mixed tree, with and without -owner and -times, also
\* over the output of an earlier run.
MixedInit ==
    /\ Init
    /\ PlainRun
    /\ src = TreeMixed
    /\ dst0 \in Dests \cup {DestPrior(src)}
    /\ optTimes = optOwner
    /\ ~optQuiet
    /\ ~optVerbose

\* The engine on these runs, under the same scheduler.
MixedFairSpec ==
    /\ MixedInit
    /\ [][PlainNext]_vars
    /\ WF_vars(main)
    /\ WF_vars(dispatcher)
    /\ \A w \in 0..(MaxThreads - 1) : WF_vars(Worker(w))

QSpecInit == QInit /\ EIdle

\* The steps of the sender goroutine and of the infchan goroutine.
Sender == SenderSend \/ SenderClose
infchan ==
    \/ ReadEmptyRecv
    \/ ReadEmptyClosed
    \/ SelectRecv
    \/ SelectClosed
    \/ SelectSend
    \/ WriteLoop
    \/ CloseOut

\* InfChan under the sender and the receiver of its tests.
QSpec == QSpecInit /\ [][QNext]_vars

\* The same, the Go scheduler running the sender and the infchan goroutine
\* whenever they can take a step.  Nothing is assumed of the receiver: it may
\* stay away from its receive for ever.
QFairSpec == QSpec /\ WF_vars(Sender) /\ WF_vars(infchan)

\* The steps of the receiving loop of the tests.
Receiver == ReceiverLoop \/ Receive \/ ReceiveClosed

\* The same, with a receiver that keeps receiving.
QLiveSpec == QSpec /\ WF_vars(Sender) /\ WF_vars(infchan) /\ WF_vars(Receiver)

\* The runs compared for the logging options: the mixed tree under every
\* combination of -verbose and -quiet, with failing operations of every kind
\* (and -owner and -times where the attribute calls fail), over an empty and
\* a filled destination, with and without -sync; and, with one copy thread,
\* a command line that usage() rejects and a destination that
\* prepareDestDir() rejects.
LogRuns ==
    /\ src = TreeMixed
    /\ ~optCreate
    /\ optTimes = optOwner
    /\ \/ /\ PlainRun
          /\ dst0 \in Dests
          /\ dst0 = DestSome => (fail = {} /\ ~optOwner)
          /\ optOwner <=> <<"chown", <<1>>>> \in fail
          /\ optSync => (\E f \in fail : f[1] = "readdst") /\ optThreads = 1
       \/ /\ optThreads = 1
          /\ fail = {}
          /\ ~optSync /\ ~optOwner
          /\ \/ ~argsOk /\ dst0 = DestEmpty
             \/ argsOk /\ dst0 = DestMissing

\* State when main starts, for these runs.
LogInit ==
    /\ QIdle
    /\ src \in Trees
    /\ dst0 \in Dests \cup {DestMissing}
    /\ dst = dst0
    /\ fail \in FailSets
    /\ argsOk \in BOOLEAN
    /\ optThreads \in 1..MaxThreads
    /\ optVerbose \in BOOLEAN
    /\ optCreate \in BOOLEAN
    /\ optSync \in BOOLEAN
    /\ optOwner \in BOOLEAN
    /\ optTimes \in BOOLEAN
    /\ optQuiet \in BOOLEAN
    /\ LogRuns
    /\ mainPc = "flags"
    /\ wg = 0
    /\ dch = <<>>
    /\ wch = <<>>
    /\ worklist = <<>>
    /\ pc = Empty
    /\ dir = Empty
    /\ files = Empty
    /\ desthash = Empty
    /\ stderr = Empty
    /\ stdout = Empty
    /\ sent = Empty
    /\ retrieved = Empty
    /\ completed = Empty

\* The engine on these runs.
LogSpec == LogInit /\ [][Next]_vars

\* Either program: a behaviour is a run of InfChan under its tests, the
\* engine at rest, or a run of the engine, InfChan at rest.
BothInit == QSpecInit \/ Init
BothNext == QNext \/ Next
BothSpec == BothInit /\ [][BothNext]_vars

------------------------------------------------------------------------------
(* The run of the same jobs one at a time: each job is handled to its end   *)
(* before the next one starts, in the order of submission.  It depends on   *)
(* the inputs of a run only, not on optThreads and not on any schedule.     *)

RECURSIVE RunEntries(_, _, _, _)
\* The range loop of copyDir (lines 187-221) over the entries `names` of
\* directory d, with desthash h, from world W: the world after the loop and
\* the subdirectories submitted, in order.
RunEntries(W, d, names, h) ==
    IF names = <<>> THEN [w |-> W, sub |-> <<>>]
    ELSE LET n == Head(names)
             p == Append(d, n)
         IN  IF src[p] = "dir"
                THEN IF MustMkdir(h, n) /\ ~MkdirOk(W.d, p)
                        THEN RunEntries([W EXCEPT !.e = Warning(W.e, "mkdir", p)],
                                        d, Tail(names), h)
                        ELSE LET W1 == IF MustMkdir(h, n)
                                          THEN [W EXCEPT !.d = Put(W.d, p, Entry("dir", "src"))]
                                          ELSE W
                                 r  == RunEntries(W1, d, Tail(names), h)
                             IN  [w |-> r.w, sub |-> <<p>> \o r.sub]
                ELSE RunEntries(IF MustCopy(h, n) THEN copyFile(W, p, src[p]) ELSE W,
                                d, Tail(names), h)

\* One iteration of copyDir's outer loop (lines 159-243) for directory d.
RunJob(W, d) ==
    IF ~CanReadSrc(d)
       THEN [w |-> [W EXCEPT !.e = Warning(W.e, "readsrc", d)], sub |-> <<>>]
       ELSE IF optSync /\ ~IsDestDir(W.d, d)
               THEN [w |-> [W EXCEPT !.e = Warning(W.e, "readdst", d)], sub |-> <<>>]
               ELSE LET h == IF optSync THEN Snapshot(W.d, d) ELSE Empty
                        r == RunEntries(W, d, ReadDir(d), h)
                    IN  [w |-> DirAttributes(r.w, d), sub |-> r.sub]

RECURSIVE RunAll(_, _)
\* The jobs of `todo`, and the jobs they submit, one after the other.
RunAll(W, todo) ==
    IF todo = <<>> THEN W
    ELSE LET r == RunJob(W, Head(todo))
         IN  RunAll(r.w, Tail(todo) \o r.sub)

\* The world a run ends with when its jobs are run one at a time.
Sequential == RunAll([d |-> prepareDestDir(dst0).d, e |-> Empty], << <<>> >>)

(***************************************************************************)
(* PROPERTIES OF PART II (the engine), checked under Spec, FairSpec,        *)
(* MixedFairSpec and LogSpec.                                              *)
(***************************************************************************)

\* Every path a job can be about: the root and the entries of the source.
Paths == {<<>>} \cup DOMAIN src

\* The number of copy threads that are handling a job for p.
Executing(p) == Cardinality({w \in Workers : pc[w] # "recv" /\ dir[w] = p})

\* C4: for every tree, worker count and fair schedule the run completes:
\* wg.Wait() returns and main ends.  (A state in which every worker stays
\* blocked in its send on dch while nothing drains dch would never complete.)
C4_Terminates == <>(mainPc = "exit")

\* C4 witness: two copy threads are both blocked submitting a subdirectory
\* to a full dispatcher channel.
C4_Witness ==
    /\ optThreads >= 2
    /\ Len(dch) = QueueCap
    /\ \A w \in Workers : pc[w] = "send"

\* C5: the counter is zero exactly when every job submitted, the root
\* included, has completed (and no job is about to be submitted by main); then
\* no job is in dch, in the work list, in wch or being handled by a copy
\* thread; main only ends with the counter at zero.
C5_NoPrematureTermination ==
    /\ (wg = 0) <=> (mainPc # "send" /\ sent = completed)
    /\ wg = 0 =>
          /\ dch = <<>>
          /\ worklist = <<>>
          /\ wch = <<>>
          /\ \A w \in Workers : pc[w] = "recv"
    /\ mainPc = "exit" => wg = 0

\* C5 witness: main has ended after at least four jobs were submitted and
\* completed.
C5_Witness ==
    /\ mainPc = "exit"
    /\ Cardinality(DOMAIN completed) >= 4

\* C6: the WaitGroup counter is never negative.
C6_NonNegative == wg >= 0

\* C6 witness: the counter is back at zero after a run in which a mkdir, a
\* file copy, a link copy and the re-stat of a directory failed.
C6_Witness ==
    /\ mainPc = "wait"
    /\ wg = 0
    /\ CountOf(stderr, <<"mkdir", <<1, 2>>>>) = 1
    /\ CountOf(stderr, <<"create", <<1, 1>>>>) = 1
    /\ CountOf(stderr, <<"symlink", <<3, 1>>>>) = 1
    /\ CountOf(stderr, <<"stat", <<>>>>) = 1

\* C7: every job received from wch calls wg.Done() exactly once, at its end:
\* for every path, the jobs completed plus the jobs being handled are the
\* jobs retrieved.
C7_DoneExactlyOnce ==
    \A p \in Paths : CountOf(completed, p) + Executing(p) = CountOf(retrieved, p)

\* C7 witness: a run has ended in which one job failed to list its source
\* directory, one failed to list its destination directory, and one completed
\* with a failed file copy; each called wg.Done() once.
C7_Witness ==
    /\ mainPc = "exit"
    /\ CountOf(stderr, <<"readsrc", <<1>>>>) = 1
    /\ CountOf(stderr, <<"readdst", <<3>>>>) = 1
    /\ CountOf(stderr, <<"create", <<2>>>>) = 1
    /\ \A p \in {<<>>, <<1>>, <<3>>} : CountOf(completed, p) = 1

\* C8: the dispatcher neither drops nor duplicates: every path sent on dch is
\* in dch, in the work list, in wch, or was received by a copy thread, as
\* many times as it was sent; when the run ends, every path sent was received
\* by a copy thread.
C8_HandedExactlyOnce ==
    /\ \A p \in Paths :
          CountOf(sent, p) = Occurrences(dch, p) + Occurrences(worklist, p)
                             + Occurrences(wch, p) + CountOf(retrieved, p)
    /\ mainPc = "exit" => retrieved = sent

\* C8 witness: the dispatcher holds two paths in its work list and one in the
\* full worker channel, after a copy thread received another.
C8_Witness ==
    /\ Len(worklist) >= 2
    /\ Len(wch) = QueueCap
    /\ DOMAIN retrieved # {}

\* C9: in non-sync mode, from an empty destination and with no failing
\* operation, the run ends with exactly the directories, files and links of
\* the source at the destination, each of the kind of its source entry and
\* with its full content.
C9_CompleteCopy ==
    (mainPc = "exit" /\ ~optSync /\ dst0 = DestEmpty /\ fail = {}) =>
        /\ DOMAIN dst = {<<>>} \cup {p \in DOMAIN src : src[p] # "special"}
        /\ \A p \in DOMAIN dst \ {<<>>} : dst[p].kind = src[p] /\ dst[p].data = "src"

\* C9 witness: such a run of two copy threads has ended for the tree that
\* holds directories, files, a link and a special file.
C9_Witness ==
    /\ mainPc = "exit"
    /\ ~optSync
    /\ dst0 = DestEmpty
    /\ fail = {}
    /\ src = TreeMixed
    /\ optThreads >= 2
    /\ <<3, 1>> \in DOMAIN dst

\* C10: for given source tree, initial destination, options and failing
\* operations, every run, whatever optThreads and the schedule, ends with the
\* destination tree of the run that handles the jobs one at a time.
C10_SameOutcome == mainPc = "exit" => dst = Sequential.d

\* C10 witness: a sync-mode run of two copy threads over a destination that
\* already holds entries, with failing operations, has ended.
C10_Witness ==
    /\ mainPc = "exit"
    /\ optThreads >= 2
    /\ optSync
    /\ dst0 = DestSome
    /\ fail # {}
    /\ src = TreeMixed
    /\ dst # dst0

\* C11: a sync-mode run over the complete output of an earlier run, with no
\* failing operation, creates no directory, copies no file and creates no
\* link: the destination keeps its entries, each with its kind and its
\* content, and no warning is written; and the run ends with main returning.
C11_SyncIdempotent ==
    /\ [](  (optSync /\ dst0 = DestPrior(src) /\ fail = {}) =>
               /\ DOMAIN dst = DOMAIN dst0
               /\ \A p \in DOMAIN dst :
                      dst[p].kind = dst0[p].kind /\ dst[p].data = dst0[p].data
               /\ stderr = Empty
               /\ mainPc # "exit1")
    /\ <>((optSync /\ dst0 = DestPrior(src) /\ fail = {}) => mainPc = "exit")

\* C11 witness: such a run over the mixed tree has ended, with -owner and
\* -times, after handling its four directories.
C11_Witness ==
    /\ mainPc = "exit"
    /\ optSync
    /\ optOwner
    /\ src = TreeMixed
    /\ dst0 = DestPrior(src)
    /\ Cardinality(DOMAIN completed) = 4

\* C12: when the range loop of a copy thread passes an entry that is no
\* directory, the entry is handed to copyFile (the destination and the
\* warnings become what copyFile makes of them) if sync mode is off or the
\* snapshot of the destination directory has no entry of that name, and
\* otherwise nothing is written; and in sync mode a destination entry that was
\* there when the run started, under the name of a source entry that is no
\* directory, stays as it was, of whatever kind it is.
C12_CopyDecision ==
    /\ [][\A w \in Workers :
            (AtFile(w) /\ files'[w] # files[w]) =>
                IF ~optSync \/ fname(w) \notin DOMAIN desthash[w]
                   THEN LET W == copyFile([d |-> dst, e |-> stderr], EntryPath(w),
                                          src[EntryPath(w)])
                        IN  dst' = W.d /\ stderr' = W.e
                   ELSE dst' = dst /\ stderr' = stderr /\ stdout' = stdout]_vars
    /\ [](optSync =>
            \A p \in DOMAIN dst0 \cap DOMAIN src :
                src[p] # "dir" => (p \in DOMAIN dst /\ dst[p] = dst0[p]))

\* C12 witness: a sync-mode run has ended that copied file 1/1, which the
\* destination did not hold, and left alone the directory named like file 2
\* and the file named like link 3/1.
C12_Witness ==
    /\ mainPc = "exit"
    /\ optSync
    /\ dst0 = DestOdd
    /\ src = TreeMixed
    /\ <<1, 1>> \in DOMAIN dst
    /\ dst[<<1, 1>>].data = "src"
    /\ dst[<<2>>].kind = "dir"
    /\ dst[<<3, 1>>].kind = "file"

\* C13: for a source directory d whose listing fails: its job writes one
\* warning (none with -quiet) when it ends, and ends once; nothing below d is
\* submitted, created or changed at the destination; owner and timestamps
\* are not applied to d and no warning about them is written; when main
\* returns, every job submitted, those of the siblings of d included, has
\* completed; and main does return.
C13_UnreadableSource ==
    /\ [](\A d \in DOMAIN src :
            (src[d] = "dir" /\ Fails("readsrc", d)) =>
                /\ CountOf(completed, d) <= 1
                /\ CountOf(stderr, <<"readsrc", d>>) =
                       (IF optQuiet THEN 0 ELSE CountOf(completed, d))
                /\ \A p \in DOMAIN src :
                       (Len(p) > Len(d) /\ SubSeq(p, 1, Len(d)) = d) =>
                           /\ CountOf(sent, p) = 0
                           /\ p \in DOMAIN dst => (p \in DOMAIN dst0 /\ dst[p] = dst0[p])
                /\ d \in DOMAIN dst => (~dst[d].own /\ ~dst[d].tim)
                /\ \A m \in {"stat", "chown", "chtimes"} : CountOf(stderr, <<m, d>>) = 0
                /\ mainPc = "exit" =>
                       \A p \in Paths : CountOf(completed, p) = CountOf(sent, p))
    /\ <>(mainPc = "exit")

\* C13 witness: a run with -owner and -times has ended in which the listing
\* of source directory 3 failed with one warning, while the jobs of its
\* sibling 1 and of 1/2 completed.
C13_Witness ==
    /\ mainPc = "exit"
    /\ optOwner
    /\ Fails("readsrc", <<3>>)
    /\ CountOf(stderr, <<"readsrc", <<3>>>>) = 1
    /\ CountOf(completed, <<3>>) = 1
    /\ CountOf(completed, <<1>>) = 1
    /\ CountOf(completed, <<1, 2>>) = 1

\* C14, as claimed: within one directory job no file, link or special entry
\* is copied while a subdirectory entry of that directory is still to be
\* handled: once the range loop has handed an entry to copyFile, no
\* directory entry is left in it.
C14_DirsBeforeFiles ==
    \A w \in Workers :
        pc[w] \in {"loop", "send"} =>
            LET todo == {files[w][j] : j \in 1..Len(files[w])}
                done == Names(src, dir[w]) \ todo
            IN  (\E n \in done : src[Append(dir[w], n)] # "dir" /\ MustCopy(desthash[w], n))
                    => \A m \in todo : src[Append(dir[w], m)] # "dir"

\* C14, amended: within one directory job the entries are handled in one
\* pass in the order of their names: the entries still to be handled are the
\* tail of the sorted listing; a directory entry already passed was
\* submitted once, unless its mkdir failed; a file or link already passed,
\* which had to be copied and met no failure and no older entry, is at the
\* destination; an entry not yet reached was neither submitted nor touched.
C14_NameOrder ==
    \A w \in Workers :
        pc[w] \in {"loop", "send"} =>
            LET all  == ReadDir(dir[w])
                todo == {files[w][j] : j \in 1..Len(files[w])}
                done == Names(src, dir[w]) \ todo
                path(n) == Append(dir[w], n)
            IN  /\ files[w] = SubSeq(all, Len(all) - Len(files[w]) + 1, Len(all))
                /\ \A n \in done : \A m \in todo : n < m
                /\ \A n \in done :
                       IF src[path(n)] = "dir"
                          THEN \/ CountOf(sent, path(n)) = 1
                               \/ /\ CountOf(sent, path(n)) = 0
                                  /\ Fails("mkdir", path(n)) \/ path(n) \in DOMAIN dst0
                          ELSE (/\ src[path(n)] \in {"file", "link"}
                                /\ MustCopy(desthash[w], n)
                                /\ path(n) \notin DOMAIN dst0
                                /\ \A f \in fail : f[2] # path(n))
                                   => (path(n) \in DOMAIN dst /\ dst[path(n)].kind = src[path(n)])
                /\ \A m \in todo :
                       /\ CountOf(sent, path(m)) = 0
                       /\ (pc[w] = "loop" \/ m # fname(w)) =>
                              IF path(m) \in DOMAIN dst0
                                 THEN dst[path(m)] = dst0[path(m)]
                                 ELSE path(m) \notin DOMAIN dst

\* C14 witness: the job of the root is submitting directory 3 after it
\* submitted directory 1 and copied file 2.
C14_Witness ==
    \E w \in Workers :
        /\ pc[w] = "send"
        /\ dir[w] = <<>>
        /\ fname(w) = 3
        /\ CountOf(sent, <<1>>) = 1
        /\ <<2>> \in DOMAIN dst
        /\ dst[<<2>>].data = "src"

\* C17: a source entry that is a device, a named pipe or a socket leaves the
\* destination as it is (no entry is created under its name, an older entry
\* of that name is not changed), no line about it is written to os.Stderr,
\* the range loop goes on to the entry after it, and when main returns the
\* job of its directory has completed.
C17_SpecialSkipped ==
    /\ [](\A p \in DOMAIN src :
            src[p] = "special" =>
                /\ IF p \in DOMAIN dst0 THEN p \in DOMAIN dst /\ dst[p] = dst0[p]
                                        ELSE p \notin DOMAIN dst
                /\ \A l \in DOMAIN stderr : l[2] # p
                /\ mainPc = "exit" =>
                       CountOf(completed, Parent(p)) = CountOf(retrieved, Parent(p)))
    /\ [][\A w \in Workers :
            (AtFile(w) /\ src[EntryPath(w)] = "special" /\ files'[w] # files[w]) =>
                /\ files'[w] = Tail(files[w])
                /\ pc'[w] = "loop"
                /\ dst' = dst
                /\ stderr' = stderr]_vars

\* C17 witness: in a run that is neither in sync mode nor quiet, the job of
\* directory 3 has passed the named pipe 3/2 and copied file 3/3 after it,
\* and main has returned.
C17_Witness ==
    /\ mainPc = "exit"
    /\ ~optSync
    /\ ~optQuiet
    /\ src = TreeMixed
    /\ CountOf(completed, <<3>>) = 1
    /\ <<3, 3>> \in DOMAIN dst
    /\ dst[<<3, 3>>].data = "src"
    /\ <<3, 2>> \notin DOMAIN dst

\* C18: no line written to os.Stdout or to os.Stderr, in any mode, names a
\* source entry that is a device, a named pipe or a socket.
C18_SpecialNeverReported ==
    \A l \in DOMAIN stdout \cup DOMAIN stderr :
        l[2] \in DOMAIN src => src[l[2]] # "special"

\* C19: when the command line is accepted and the destination root is
\* missing, cannot be stat'ed or is no directory (without -create), or cannot
\* be created (with -create: os.MkdirAll fails, or a file is in its place),
\* then main never gets past prepareDestDir: the dispatcher and the copy
\* threads are never started, no job is counted or submitted, the destination
\* stays as it was, main never returns normally but can always take its next
\* step towards os.Exit(1), and an error line is on os.Stderr when the
\* process has ended; the step that leaves prepareDestDir
\* is os.Exit(1) in these cases, and in these cases only.
C19_PreflightAborts ==
    /\ [](LET rootIsDir == <<>> \in DOMAIN dst0 /\ dst0[<<>>].kind = "dir"
              preflightFails ==
                  /\ argsOk
                  /\ optThreads <= LimitThreads
                  /\ IF optCreate
                        THEN Fails("mkdirall", <<>>) \/ (<<>> \in DOMAIN dst0 /\ ~rootIsDir)
                        ELSE ~rootIsDir \/ Fails("statdest", <<>>)
          IN  preflightFails =>
                  /\ mainPc \in {"flags", "prepare", "exit1"}
                  /\ Workers = {}
                  /\ wg = 0
                  /\ sent = Empty
                  /\ dch = <<>> /\ worklist = <<>> /\ wch = <<>>
                  /\ dst = dst0
                  /\ stdout = Empty
                  /\ mainPc = "exit1" => DOMAIN stderr # {}
                  /\ mainPc # "exit1" => ENABLED (FlagsAccepted \/ PrepareFailed))
    /\ [][mainPc = "prepare" =>
            (mainPc' = "exit1" <=>
                IF optCreate
                   THEN \/ Fails("mkdirall", <<>>)
                        \/ (<<>> \in DOMAIN dst0 /\ dst0[<<>>].kind # "dir")
                   ELSE \/ <<>> \notin DOMAIN dst0
                        \/ dst0[<<>>].kind # "dir"
                        \/ Fails("statdest", <<>>))]_vars

\* C19 witness: the process has ended with os.Exit(1) for a destination that
\* does not exist, -create not given.
C19_Witness ==
    /\ mainPc = "exit1"
    /\ argsOk
    /\ ~optCreate
    /\ dst0 = DestMissing
    /\ CountOf(stderr, <<"destination directory does not exist", <<>>>>) = 1

\* C20: the number of copy threads started is between 1 and 1024, and a
\* -threads value outside 1..1024 makes flags() end the process with the
\* usage message: it is neither used nor replaced by another value.
C20_ThreadsChecked ==
    /\ [](Workers # {} => Cardinality(Workers) \in 1..LimitThreads)
    /\ [](mainPc \notin {"flags", "exit1"} => optThreads \in 1..LimitThreads)
    /\ [][(mainPc = "flags" /\ argsOk /\ optThreads \notin 1..LimitThreads) =>
            (mainPc' = "exit1" /\ optThreads' = optThreads)]_vars

RECURSIVE Total(_)
\* The number of elements of bag b, copies counted.
Total(b) ==
    IF DOMAIN b = {} THEN 0
    ELSE LET x == CHOOSE y \in DOMAIN b : TRUE
         IN  b[x] + Total([y \in DOMAIN b \ {x} |-> b[y]])

\* The jobs counted by wg.Add(1) and not yet sent on dch: the root while main
\* is between lines 60 and 61, a subdirectory while its copy thread is
\* between lines 208 and 209.
CountedUnsent ==
    Cardinality({w \in Workers : pc[w] = "send"}) + (IF mainPc = "send" THEN 1 ELSE 0)

\* Subdirectory p was counted by the job of its parent: it was sent, or the
\* copy thread that counted it is about to send it.
Counted(p) ==
    \/ CountOf(sent, p) > 0
    \/ \E w \in Workers : pc[w] = "send" /\ Append(dir[w], Head(files[w])) = p

\* C21: wg.Add(1) for a job comes before the job is sent on dch, the root
\* included: the counter is the number of jobs sent and not completed plus
\* the jobs counted and not yet sent, and a step that sends a job leaves the
\* counter, which already counts it, as it is.  The counter only rises in
\* main before the root is sent and in a copy thread whose own job has not
\* called wg.Done(); once a job has called wg.Done(), no further
\* subdirectory of its directory gets counted; and once the counter is at
\* zero after the root was sent, it stays at zero.
C21_AddBeforeSend ==
    /\ [](wg = Total(sent) - Total(completed) + CountedUnsent)
    /\ [][sent' # sent =>
            /\ wg' = wg
            /\ wg > Total(sent) - Total(completed)
            /\ Total(sent') = Total(sent) + 1]_vars
    /\ [][wg' > wg =>
            /\ wg' = wg + 1
            /\ \/ mainPc = "add" /\ mainPc' = "send" /\ sent = Empty
               \/ \E w \in Workers :
                     /\ pc[w] = "loop" /\ pc'[w] = "send"
                     /\ CountOf(completed', dir[w]) < CountOf(retrieved', dir[w])]_vars
    /\ [][\A p \in DOMAIN src :
            CountOf(completed, Parent(p)) >= 1 => (Counted(p)' <=> Counted(p))]_vars
    /\ [][(wg = 0 /\ mainPc \in {"wait", "exit"}) => wg' = 0]_vars

\* C21 witness: the job of the root has called wg.Done() while two copy
\* threads are handling subdirectories of it, one of them between wg.Add(1)
\* and the send of a subdirectory of its own.
C21_Witness ==
    /\ CountOf(completed, <<>>) = 1
    /\ wg >= 3
    /\ \E w \in Workers : pc[w] = "send" /\ Len(dir[w]) = 1
    /\ \E w \in Workers : pc[w] \in {"readsrc", "readdst", "loop"} /\ Len(dir[w]) = 1

\* Path p is below directory d.
Below(p, d) == Len(p) > Len(d) /\ SubSeq(p, 1, Len(d)) = d

\* C22: in sync mode, for a directory d whose source listing succeeds and
\* whose destination listing fails: the job of d writes one warning (none
\* with -quiet) and calls wg.Done() once, in the step that finds the failure,
\* which changes nothing at the destination and returns the copy thread to
\* its receive; nothing below d is submitted, created, copied or changed;
\* owner and timestamps are not applied to d and no warning about them is
\* written; and when main returns, every job submitted has completed, and
\* the files and links of the sibling directories of d that no failure
\* concerns are at the destination.
C22_UnlistableDest ==
    /\ [](\A d \in Paths :
            (optSync /\ CanReadSrc(d) /\ Fails("readdst", d)) =>
                /\ CountOf(completed, d) <= 1
                /\ CountOf(stderr, <<"readdst", d>>) =
                       (IF optQuiet THEN 0 ELSE CountOf(completed, d))
                /\ \A p \in DOMAIN src :
                       Below(p, d) =>
                           /\ CountOf(sent, p) = 0
                           /\ IF p \in DOMAIN dst0 THEN p \in DOMAIN dst /\ dst[p] = dst0[p]
                                                   ELSE p \notin DOMAIN dst
                /\ d \in DOMAIN dst => (~dst[d].own /\ ~dst[d].tim)
                /\ \A m \in {"stat", "chown", "chtimes"} : CountOf(stderr, <<m, d>>) = 0
                /\ mainPc = "exit" =>
                       /\ \A p \in Paths : CountOf(completed, p) = CountOf(sent, p)
                       /\ \A q \in DOMAIN src :
                              (/\ src[q] \in {"file", "link"}
                               /\ Len(q) = Len(d) + 1
                               /\ Parent(q) # d
                               /\ CountOf(completed, Parent(q)) = 1
                               /\ q \notin DOMAIN dst0
                               /\ \A f \in fail : f[2] \notin {q, Parent(q)})
                                  => (q \in DOMAIN dst /\ dst[q].kind = src[q]))
    /\ [][\A w \in Workers :
            (pc[w] = "readdst" /\ pc'[w] # "readdst" /\ ~IsDestDir(dst, dir[w])) =>
                /\ wg' = wg - 1
                /\ CountOf(completed', dir[w]) = CountOf(completed, dir[w]) + 1
                /\ pc'[w] = "recv"
                /\ dst' = dst
                /\ sent' = sent]_vars

\* C22 witness: a sync-mode run with -owner and -times has ended in which
\* the job of directory 1 was abandoned with one warning, file 1/1 was not
\* copied, and the link of the sibling directory 3 was.
C22_Witness ==
    /\ mainPc = "exit"
    /\ optSync
    /\ optOwner
    /\ fail = {<<"readdst", <<1>>>>}
    /\ CountOf(stderr, <<"readdst", <<1>>>>) = 1
    /\ CountOf(completed, <<1>>) = 1
    /\ <<1, 1>> \notin DOMAIN dst
    /\ <<3, 1>> \in DOMAIN dst
    /\ dst[<<3, 1>>].own

\* C23: when the range loop of a copy thread passes a source entry that is a
\* directory, os.Mkdir is attempted unless sync mode is on and the snapshot
\* has an entry of that name that is a directory.  Attempted and successful:
\* the directory is at the destination, the job is counted and then sent.
\* Attempted and failed: a warning, nothing counted or sent.  Not attempted:
\* the destination is not touched, the job is counted and then sent.  The
\* send that follows the count sends that subdirectory, once; and once the
\* job of a directory that passed its listings has completed, each of its
\* subdirectories was sent exactly once if it was created or was a directory
\* of the destination in sync mode, and never otherwise.
C23_MkdirRule ==
    /\ [][\A w \in Workers :
            (AtDir(w) /\ (pc'[w] # pc[w] \/ files'[w] # files[w])) =>
                LET p == EntryPath(w)
                    attempted == ~(/\ optSync
                                   /\ fname(w) \in DOMAIN desthash[w]
                                   /\ desthash[w][fname(w)] = "dir")
                    created == /\ ~Fails("mkdir", p)
                               /\ p \notin DOMAIN dst
                IN  IF attempted /\ ~created
                       THEN /\ dst' = dst
                            /\ stderr' = Warning(stderr, "mkdir", p)
                            /\ wg' = wg
                            /\ sent' = sent
                            /\ pc'[w] = "loop"
                            /\ files'[w] = Tail(files[w])
                       ELSE /\ dst' = IF attempted THEN Put(dst, p, Entry("dir", "src")) ELSE dst
                            /\ stderr' = stderr
                            /\ wg' = wg + 1
                            /\ sent' = sent
                            /\ pc'[w] = "send"
                            /\ files'[w] = files[w]]_vars
    /\ [][\A w \in Workers :
            (pc[w] = "send" /\ pc'[w] # "send") =>
                /\ sent' = AddOne(sent, EntryPath(w))
                /\ dch' = Append(dch, EntryPath(w))
                /\ files'[w] = Tail(files[w])
                /\ pc'[w] = "loop"]_vars
    /\ [](\A p \in DOMAIN src :
            /\ CountOf(sent, p) <= 1
            /\ (/\ src[p] = "dir"
                /\ CountOf(completed, Parent(p)) = 1
                /\ CanReadSrc(Parent(p))
                /\ optSync => ~Fails("readdst", Parent(p)))
                   => CountOf(sent, p) =
                        (IF \/ optSync /\ p \in DOMAIN dst0 /\ dst0[p].kind = "dir"
                            \/ p \notin DOMAIN dst0 /\ ~Fails("mkdir", p)
                            THEN 1 ELSE 0))

\* C23 witness: a sync-mode run has ended in which directory 1, a directory
\* of the destination, was submitted without being created, directory 1/2
\* was created and submitted, and directory 3, a file at the destination,
\* could not be created and was not submitted.
C23_Witness ==
    /\ mainPc = "exit"
    /\ optSync
    /\ dst0 = DestSome
    /\ fail = {}
    /\ CountOf(sent, <<1>>) = 1
    /\ dst[<<1>>].data = "old"
    /\ CountOf(sent, <<1, 2>>) = 1
    /\ dst[<<1, 2>>].data = "src"
    /\ CountOf(stderr, <<"mkdir", <<3>>>>) = 1
    /\ CountOf(sent, <<3>>) = 0

\* copyDir, when it reaches the source directory p, calls os.Mkdir(dest + p)
\* (sync mode does not find a directory of that name) and the call fails: it
\* is made to fail, or an entry of that name is at the destination.
MkdirFails(p) ==
    /\ src[p] = "dir"
    /\ ~(optSync /\ p \in DOMAIN dst0 /\ dst0[p].kind = "dir")
    /\ Fails("mkdir", p) \/ p \in DOMAIN dst0

\* The job of directory d, when it runs, gets past its listing steps (lines
\* 160-185) into the range loop.
Listed(d) == CanReadSrc(d) /\ (optSync => ~Fails("readdst", d))

\* C24: for a source directory p whose creation at the destination fails: no
\* job for p is ever counted or sent; p stays as it was and nothing below p
\* is created or changed; the step that meets the failure writes the
\* warning, leaves counter and destination alone and moves the range loop
\* to the next entry; and once the job of the parent directory has
\* completed, which it has when main returns, the other entries of that
\* directory were handled (if the job got past its listings): its other subdirectories submitted, its files and
\* links copied (those that no failure concerns and that sync mode does not
\* pass over).
C24_MkdirFailure ==
    /\ [](\A p \in DOMAIN src :
            MkdirFails(p) =>
                /\ CountOf(sent, p) = 0
                /\ ~Counted(p)
                /\ IF p \in DOMAIN dst0 THEN p \in DOMAIN dst /\ dst[p] = dst0[p]
                                        ELSE p \notin DOMAIN dst
                /\ \A q \in DOMAIN src :
                       Below(q, p) =>
                           IF q \in DOMAIN dst0 THEN q \in DOMAIN dst /\ dst[q] = dst0[q]
                                                   ELSE q \notin DOMAIN dst
                /\ mainPc = "exit" =>
                       CountOf(completed, Parent(p)) = CountOf(retrieved, Parent(p))
                /\ (CountOf(completed, Parent(p)) = 1 /\ Listed(Parent(p))) =>
                       /\ CountOf(stderr, <<"mkdir", p>>) = (IF optQuiet THEN 0 ELSE 1)
                       /\ \A q \in DOMAIN src :
                              (Parent(q) = Parent(p) /\ q # p /\ \A f \in fail : f[2] # q) =>
                                  CASE src[q] = "dir" ->
                                           MkdirFails(q) \/ CountOf(sent, q) = 1
                                    [] src[q] = "special" -> TRUE
                                    [] OTHER ->
                                           IF q \notin DOMAIN dst0
                                              THEN q \in DOMAIN dst /\ dst[q].kind = src[q]
                                              ELSE (~optSync /\ src[q] = "file" /\ dst0[q].kind = "file")
                                                       => dst[q].data = "over")
    /\ [][\A w \in Workers :
            (/\ AtDir(w)
             /\ MkdirFails(EntryPath(w))
             /\ (pc'[w] # pc[w] \/ files'[w] # files[w])) =>
                /\ stderr' = Warning(stderr, "mkdir", EntryPath(w))
                /\ wg' = wg
                /\ sent' = sent
                /\ dst' = dst
                /\ pc'[w] = "loop"
                /\ files'[w] = Tail(files[w])]_vars

\* C24 witness: a run has ended in which directory 1 could not be created:
\* one warning, no job for 1 and nothing of 1 at the destination, while the
\* entries after it were handled: file 2 copied, directory 3 created, its job
\* submitted and completed.
C24_Witness ==
    /\ mainPc = "exit"
    /\ fail = {<<"mkdir", <<1>>>>}
    /\ dst0 = DestEmpty
    /\ CountOf(stderr, <<"mkdir", <<1>>>>) = 1
    /\ CountOf(retrieved, <<1>>) = 0
    /\ <<1>> \notin DOMAIN dst
    /\ dst[<<2>>].data = "src"
    /\ CountOf(completed, <<3>>) = 1
    /\ <<3, 3>> \in DOMAIN dst

\* copyDir, when it reaches the source file or link p, calls copyFile (sync
\* mode does not find the name at the destination) and copyFile returns
\* early: os.Open, os.OpenFile or io.CopyBuffer fails (a directory in the way
\* makes os.OpenFile fail), or os.Readlink or os.Symlink fails (any entry in
\* the way makes os.Symlink fail).
CopyFails(p) ==
    /\ src[p] \in {"file", "link"}
    /\ ~(optSync /\ p \in DOMAIN dst0)
    /\ IF src[p] = "file"
          THEN \/ Fails("open", p) \/ Fails("create", p) \/ Fails("copy", p)
               \/ p \in DOMAIN dst0 /\ dst0[p].kind = "dir"
          ELSE \/ Fails("readlink", p) \/ Fails("symlink", p)
               \/ p \in DOMAIN dst0

\* What is to be seen of the source entry q once the range loop has passed
\* it, q being an entry that no failing operation concerns: a subdirectory
\* was submitted (unless its creation failed), a file or link is at the
\* destination, an older file was written over when sync mode is off.
Handled(q) ==
    CASE src[q] = "dir" -> MkdirFails(q) \/ CountOf(sent, q) = 1
      [] src[q] = "special" -> TRUE
      [] OTHER -> IF q \notin DOMAIN dst0
                     THEN q \in DOMAIN dst /\ dst[q].kind = src[q]
                     ELSE (~optSync /\ src[q] = "file" /\ dst0[q].kind = "file")
                              => dst[q].data = "over"

\* The attribute step of the job of directory d (lines 223-239) has run:
\* the warning of a failed os.Stat, or owner and timestamps applied as the
\* options say, with a warning for each call that failed.
AttributesRan(d) ==
    IF Fails("stat", d)
       THEN /\ CountOf(stderr, <<"stat", d>>) = (IF optQuiet THEN 0 ELSE 1)
            /\ ~dst[d].own /\ ~dst[d].tim
       ELSE /\ optOwner =>
                  IF Fails("chown", d)
                     THEN CountOf(stderr, <<"chown", d>>) = (IF optQuiet THEN 0 ELSE 1)
                     ELSE dst[d].own
            /\ optTimes =>
                  IF Fails("chtimes", d)
                     THEN CountOf(stderr, <<"chtimes", d>>) = (IF optQuiet THEN 0 ELSE 1)
                     ELSE dst[d].tim

\* C25: for a source file or link p whose copy fails (open, readlink, create,
\* symlink or the copying itself): owner and timestamps are never applied to
\* p and no warning about them is written; p is never a complete copy at the
\* destination, and is not touched at all unless the copying itself failed;
\* the step that meets the failure writes one warning, leaves the counter
\* alone and moves the range loop to the next entry; and once the job of the
\* directory of p has completed, which it has when main returns, the entries
\* after p were handled and the attribute step of the directory has run.
C25_CopyFailure ==
    /\ [](\A p \in DOMAIN src :
            CopyFails(p) =>
                /\ p \in DOMAIN dst =>
                       /\ ~dst[p].own /\ ~dst[p].tim
                       /\ dst[p].data \in {"old", "part"}
                /\ (src[p] = "link" \/ ~Fails("copy", p)) =>
                       IF p \in DOMAIN dst0 THEN p \in DOMAIN dst /\ dst[p] = dst0[p]
                                            ELSE p \notin DOMAIN dst
                /\ CountOf(stderr, <<"chown", p>>) = 0
                /\ CountOf(stderr, <<"chtimes", p>>) = 0
                /\ mainPc = "exit" =>
                       CountOf(completed, Parent(p)) = CountOf(retrieved, Parent(p))
                /\ (CountOf(completed, Parent(p)) = 1 /\ Listed(Parent(p))) =>
                       /\ CountOf(stderr, <<"open", p>>) + CountOf(stderr, <<"create", p>>)
                            + CountOf(stderr, <<"readlink", p>>) + CountOf(stderr, <<"symlink", p>>)
                              = (IF optQuiet THEN 0 ELSE 1)
                       /\ \A q \in DOMAIN src :
                              (/\ Parent(q) = Parent(p)
                               /\ q[Len(q)] > p[Len(p)]
                               /\ \A f \in fail : f[2] # q) => Handled(q)
                       /\ AttributesRan(Parent(p)))
    /\ [][\A w \in Workers :
            (AtFile(w) /\ CopyFails(EntryPath(w)) /\ files'[w] # files[w]) =>
                /\ files'[w] = Tail(files[w])
                /\ pc'[w] = "loop"
                /\ wg' = wg
                /\ sent' = sent
                /\ \E m \in {"open", "create", "readlink", "symlink"} :
                       stderr' = Warning(stderr, m, EntryPath(w))
                /\ \A q \in DOMAIN dst' \cup DOMAIN dst :
                       q # EntryPath(w) => (q \in DOMAIN dst /\ q \in DOMAIN dst' /\ dst'[q] = dst[q])]_vars

\* C25 witness: a run with -owner and -times has ended in which opening
\* file 2 and reading link 3/1 failed, with one warning each: neither is at
\* the destination, directory 3 after file 2 was submitted, file 3/3 after
\* link 3/1 was copied with its attributes, and the attributes of
\* directory 3 and of the root were applied.
C25_Witness ==
    /\ mainPc = "exit"
    /\ optOwner
    /\ ~optSync
    /\ dst0 = DestEmpty
    /\ CountOf(stderr, <<"open", <<2>>>>) = 1
    /\ CountOf(stderr, <<"readlink", <<3, 1>>>>) = 1
    /\ <<2>> \notin DOMAIN dst
    /\ <<3, 1>> \notin DOMAIN dst
    /\ dst[<<3, 3>>].own /\ dst[<<3, 3>>].tim
    /\ dst[<<3>>].own /\ dst[<<3>>].tim
    /\ dst[<<>>].own /\ dst[<<>>].tim

\* What the attribute step leaves of directory d at the destination and on
\* os.Stderr: owner, timestamps, and the warnings of os.Stat, os.Chown and
\* os.Chtimes about d.
DirAttrTrace(d) ==
    <<IF d \in DOMAIN dst THEN <<dst[d].own, dst[d].tim>> ELSE <<FALSE, FALSE>>,
      CountOf(stderr, <<"stat", d>>),
      CountOf(stderr, <<"chown", d>>),
      CountOf(stderr, <<"chtimes", d>>)>>

\* C28: owner and timestamps of a destination directory d, and the warnings
\* about os.Stat and the attribute calls for d, change only in a step of the
\* copy thread handling the job of d, taken when the range loop has no entry
\* left and before wg.Done() of that job; until then, from the receipt of
\* the job on, d has neither and no such warning is written.  The step
\* after the attribute step is wg.Done(), which changes neither destination
\* nor warnings.  Once a job that got past its listings has completed, the
\* attribute step has run: owner and timestamps are applied as the options
\* say, or the warning of the failed call is written; and when main returns,
\* every job retrieved has completed, whatever failed in its attribute step.
C28_DirAttrLast ==
    /\ [][\A d \in Paths :
            (IsSrcDir(d) /\ DirAttrTrace(d)' # DirAttrTrace(d)) =>
                \E w \in Workers :
                    /\ dir[w] = d
                    /\ pc[w] = "loop" /\ files[w] = <<>>
                    /\ pc'[w] = "done"
                    /\ completed' = completed
                    /\ CountOf(completed, d) < CountOf(retrieved, d)]_vars
    /\ [](\A w \in Workers :
            /\ (pc[w] \in {"readsrc", "readdst", "send"} \/ (pc[w] = "loop" /\ files[w] # <<>>)) =>
                   DirAttrTrace(dir[w]) = <<<<FALSE, FALSE>>, 0, 0, 0>>
            /\ pc[w] = "done" => AttributesRan(dir[w]))
    /\ [][\A w \in Workers :
            (pc[w] = "done" /\ pc'[w] # "done") =>
                /\ CountOf(completed', dir[w]) = CountOf(completed, dir[w]) + 1
                /\ wg' = wg - 1
                /\ dst' = dst
                /\ stderr' = stderr]_vars
    /\ [](\A d \in Paths :
            /\ (CountOf(completed, d) = 1 /\ Listed(d)) => AttributesRan(d)
            /\ mainPc = "exit" => CountOf(completed, d) = CountOf(retrieved, d))

\* C28 witness: a run with -owner and -times has ended in which os.Stat of
\* the source root and os.Chown of directory 1 failed, with one warning each:
\* both jobs completed, directory 1 has its timestamps, and directory 3 has
\* owner and timestamps.
C28_Witness ==
    /\ mainPc = "exit"
    /\ optOwner
    /\ CountOf(stderr, <<"stat", <<>>>>) = 1
    /\ CountOf(stderr, <<"chown", <<1>>>>) = 1
    /\ CountOf(completed, <<>>) = 1
    /\ CountOf(completed, <<1>>) = 1
    /\ dst[<<1>>].tim /\ ~dst[<<1>>].own
    /\ dst[<<3>>].own /\ dst[<<3>>].tim

\* C29: owner is applied only with -owner and timestamps only with -times,
\* and no warning about a call that was not made is written; timestamps are
\* never applied to a symbolic link, and no warning about them is written.
\* A regular file copied in full has its owner exactly when -owner is given
\* and os.Chown succeeds, and its timestamps exactly when -times is given and
\* os.Chtimes succeeds; a symbolic link created has its owner exactly when
\* -owner is given and the call succeeds; a directory whose job has
\* completed, past its listings and with os.Stat succeeding, has owner and
\* timestamps on the same terms; a call that fails writes one warning.
C29_PreserveWhenEnabled ==
    /\ \A p \in DOMAIN dst :
          /\ dst[p].own => optOwner
          /\ dst[p].tim => (optTimes /\ dst[p].kind # "link")
          /\ CountOf(stderr, <<"chown", p>>) > 0 => (optOwner /\ Fails("chown", p))
          /\ CountOf(stderr, <<"chtimes", p>>) > 0 =>
                 (optTimes /\ Fails("chtimes", p) /\ dst[p].kind # "link")
    /\ \A p \in DOMAIN dst \cap Paths :
          LET done == IF p = <<>> \/ src[p] = "dir"
                         THEN /\ CountOf(completed, p) = 1
                              /\ Listed(p)
                              /\ ~Fails("stat", p)
                         ELSE /\ src[p] \in {"file", "link"}
                              /\ dst[p].kind = src[p]
                              /\ dst[p].data \in {"src", "over"}
              warned(m) == CountOf(stderr, <<m, p>>) = (IF optQuiet THEN 0 ELSE 1)
          IN  done =>
                  /\ dst[p].own <=> (optOwner /\ ~Fails("chown", p))
                  /\ (optOwner /\ Fails("chown", p)) => warned("chown")
                  /\ dst[p].tim <=> (optTimes /\ dst[p].kind # "link" /\ ~Fails("chtimes", p))
                  /\ (optTimes /\ dst[p].kind # "link" /\ Fails("chtimes", p)) => warned("chtimes")

\* C29 witness: a run with -times and without -owner has ended: file 3/3
\* and directory 3 have their timestamps and not their owner, and link 3/1
\* was created and has neither.
C29_Witness ==
    /\ mainPc = "exit"
    /\ optTimes
    /\ ~optOwner
    /\ fail = {}
    /\ dst[<<3, 3>>].tim /\ ~dst[<<3, 3>>].own
    /\ dst[<<3>>].tim /\ ~dst[<<3>>].own
    /\ dst[<<3, 1>>].kind = "link"
    /\ ~dst[<<3, 1>>].tim /\ ~dst[<<3, 1>>].own

\* The copy threads that are between `dir := <-wch` and wg.Done().
Busy == {w \in Workers : pc[w] # "recv"}

\* The destination entries a step changes, creates or removes.
Changed == {p \in DOMAIN dst \cup DOMAIN dst' :
                ~(p \in DOMAIN dst /\ p \in DOMAIN dst' /\ dst'[p] = dst[p])}

\* C30: the jobs being executed (retrieved and not completed) are as many as
\* the copy threads that are past their receive, at most optThreads, the
\* number of copy threads started, and no two copy threads execute the same
\* job: a job is retrieved at most once.  A copy thread receives a job only
\* from its receive, keeps its directory until it is back there, and gets
\* back there only with the wg.Done() of that job.  A step writes at most one
\* destination entry, and an entry of directory d, or the attributes of d,
\* are written only by the copy thread that executes the job of d: the entry
\* its range loop is at, or d itself when the loop is through.
C30_OneJobPerWorker ==
    /\ [](/\ Total(retrieved) - Total(completed) = Cardinality(Busy)
          /\ Cardinality(Busy) <= Cardinality(Workers)
          /\ Workers # {} => Cardinality(Workers) = optThreads
          /\ \A p \in Paths : CountOf(retrieved, p) <= 1
          /\ \A v, w \in Busy : dir[v] = dir[w] => v = w)
    /\ [][\A w \in Workers :
            /\ dir'[w] # dir[w] =>
                   /\ pc[w] = "recv" /\ pc'[w] = "readsrc"
                   /\ wch # <<>> /\ dir'[w] = Head(wch)
                   /\ retrieved' = AddOne(retrieved, Head(wch))
            /\ (pc[w] # "recv" /\ pc'[w] = "recv") =>
                   /\ completed' = AddOne(completed, dir[w])
                   /\ wg' = wg - 1
            /\ (pc[w] = "recv" /\ pc'[w] # "recv") => dir'[w] = Head(wch)]_vars
    /\ [][retrieved' # retrieved =>
            \E w \in Workers :
                /\ pc[w] = "recv" /\ pc'[w] = "readsrc"
                /\ \A v \in Workers \ {w} : pc'[v] = pc[v] /\ dir'[v] = dir[v]]_vars
    /\ [][(Changed # {} /\ mainPc # "prepare") =>
            /\ Cardinality(Changed) = 1
            /\ \A p \in Changed :
                  \E w \in Busy :
                      /\ pc[w] = "loop"
                      /\ CountOf(retrieved, dir[w]) = 1
                      /\ IF files[w] # <<>> THEN p = EntryPath(w) ELSE p = dir[w]
                      /\ \A v \in Workers \ {w} :
                             pc'[v] = pc[v] /\ files'[v] = files[v]]_vars

\* C30 witness: two copy threads were started and each is executing a job,
\* of different directories, one of them about to copy a file, while a
\* further job waits in the worker channel.
C30_Witness ==
    /\ Cardinality(Workers) = 2
    /\ Busy = Workers
    /\ \E v, w \in Workers : dir[v] # dir[w]
    /\ \E w \in Workers : AtFile(w)
    /\ wch # <<>>

\* The jobs counted and not yet marked complete, place by place: about to be
\* sent by their submitter (lines 60-61, 208-209), in the dispatcher channel,
\* in the work list, in the worker channel, being executed by a copy thread.
InFlight ==
    CountedUnsent + Len(dch) + Len(worklist) + Len(wch) + Cardinality(Busy)

\* C31: in every reachable state the WaitGroup counter is the number of jobs
\* counted and not yet marked complete: those about to be sent by main or by
\* a copy thread, those in dch, in the work list and in wch, and those being
\* executed by a copy thread.  When the counter is zero after the root was
\* submitted, dch, the work list and wch are empty, nobody is about to send,
\* and every copy thread is idle in its receive.
C31_OutstandingAccounting ==
    /\ wg = InFlight
    /\ (wg = 0 /\ CountOf(sent, <<>>) >= 1) =>
          /\ Len(dch) + Len(worklist) + Len(wch) = 0
          /\ CountedUnsent = 0
          /\ Busy = {}
          /\ \A w \in Workers : pc[w] = "recv"

\* C31 witness: jobs are in all five places at once: a copy thread is about
\* to send a subdirectory, dch, the work list and wch hold jobs, and both
\* copy threads are executing.
C31_Witness ==
    /\ CountedUnsent >= 1
    /\ dch # <<>>
    /\ worklist # <<>>
    /\ wch # <<>>
    /\ Cardinality(Busy) = 2
    /\ wg >= 5

\* The copy threads that take the step: the ones whose position in copyDir
\* or in the range loop changes.
Acting == {w \in Workers : pc'[w] # pc[w] \/ files'[w] # files[w]}

\* The destination entries a step creates, or whose kind or content it
\* writes (os.Mkdir, os.Symlink, os.OpenFile and the copy loop), as opposed
\* to the entries of which it only sets owner or timestamps.
ContentChanged ==
    {p \in Changed : ~(/\ p \in DOMAIN dst /\ p \in DOMAIN dst'
                       /\ dst'[p].kind = dst[p].kind /\ dst'[p].data = dst[p].data)}

\* C32 as claimed: every directory path is sent on dch at most once and
\* received from wch at most once, no two copy threads execute a job for the
\* same directory, and no destination path is created or written by two
\* different jobs: a path that this run created, which is the work of the
\* job of its parent directory, is afterwards written only by that job.
C32_OneJobPerPath ==
    /\ [](\A p \in Paths : CountOf(sent, p) <= 1 /\ CountOf(retrieved, p) <= 1)
    /\ [](\A v, w \in Busy : dir[v] = dir[w] => v = w)
    /\ [][(Changed # {} /\ mainPc # "prepare") =>
            /\ Acting # {}
            /\ \A p \in Changed : \A w \in Acting :
                  /\ p \notin DOMAIN dst => dir[w] = Parent(p)
                  /\ p \in DOMAIN dst \ DOMAIN dst0 => dir[w] = Parent(p)]_vars

\* C32, amended: every directory path is sent on dch at most once and
\* received from wch at most once, and no two copy threads execute a job for
\* the same directory.  A destination path is created, and its kind and
\* content are written, only by the job of its parent directory; owner and
\* timestamps of a file or link are set by that same job, in the same call of
\* copyFile; owner and timestamps of a directory are set only by the
\* directory's own job, one other job, and only once the directory is there.
C32_OneJobPerPathContent ==
    /\ [](\A p \in Paths : CountOf(sent, p) <= 1 /\ CountOf(retrieved, p) <= 1)
    /\ [](\A v, w \in Busy : dir[v] = dir[w] => v = w)
    /\ [][(Changed # {} /\ mainPc # "prepare") =>
            /\ Cardinality(Acting) = 1
            /\ \A p \in Changed : \A w \in Acting :
                  /\ CountOf(retrieved, dir[w]) = 1 /\ CountOf(completed, dir[w]) = 0
                  /\ IF p \in ContentChanged
                        THEN p # <<>> /\ dir[w] = Parent(p)
                        ELSE /\ dst[p].kind = "dir"
                             /\ dir[w] = p
                             /\ dst'[p] = [dst[p] EXCEPT !.own = dst'[p].own, !.tim = dst'[p].tim]]_vars

\* C32 witness: the run has ended; directory 1 was not at the destination
\* before, was created by the job of the root and got its owner set by its
\* own job, which also copied file 1/1; each directory was sent once.
C32_Witness ==
    /\ mainPc = "exit"
    /\ Cardinality(Workers) = 2
    /\ <<1>> \notin DOMAIN dst0
    /\ {<<1>>, <<1, 1>>} \subseteq DOMAIN dst
    /\ dst[<<1>>].kind = "dir" /\ dst[<<1>>].own
    /\ dst[<<1, 1>>].data = "src"
    /\ \A p \in {<<>>, <<1>>, <<1, 2>>, <<3>>} : CountOf(sent, p) = 1 /\ CountOf(completed, p) = 1

\* The source directory p has an entry of its name at the destination when
\* the run starts, and the run is not in sync mode: os.Mkdir(dest + p)
\* (line 197) is called whatever is there and fails.
InTheWay(p) == ~optSync /\ src[p] = "dir" /\ p \in DOMAIN dst0

\* C34: in non-sync mode, for a source subdirectory p whose name is at the
\* destination already: no job for p is ever counted, sent, received or
\* executed; p stays as it was, without owner or timestamps applied; nothing
\* below p is submitted, created or changed, so none of its files is copied;
\* the failed creation is reported at most once, and once (unless -quiet)
\* when the job of the parent directory has completed after listing it; and
\* then the other entries of that directory were handled: its files and
\* links copied or written over, its other subdirectories submitted unless
\* their creation failed too.
C34_ExistingNotTraversed ==
    \A p \in DOMAIN src :
        InTheWay(p) =>
            /\ CountOf(sent, p) + CountOf(retrieved, p) + CountOf(completed, p) = 0
            /\ ~Counted(p)
            /\ Executing(p) = 0
            /\ Occurrences(dch, p) + Occurrences(worklist, p) + Occurrences(wch, p) = 0
            /\ p \in DOMAIN dst /\ dst[p] = dst0[p]
            /\ \A q \in DOMAIN src :
                   Below(q, p) =>
                       /\ CountOf(sent, q) = 0
                       /\ IF q \in DOMAIN dst0 THEN q \in DOMAIN dst /\ dst[q] = dst0[q]
                                               ELSE q \notin DOMAIN dst
                       /\ CountOf(stdout, <<"Copying", q>>) = 0
            /\ CountOf(stderr, <<"mkdir", p>>) <= 1
            /\ (CountOf(completed, Parent(p)) = 1 /\ Listed(Parent(p))) =>
                   /\ CountOf(stderr, <<"mkdir", p>>) = (IF optQuiet THEN 0 ELSE 1)
                   /\ \A q \in DOMAIN src :
                          (Parent(q) = Parent(p) /\ q # p /\ \A f \in fail : f[2] # q) =>
                              /\ Handled(q)
                              /\ (src[q] = "dir" /\ q \notin DOMAIN dst0) =>
                                     (q \in DOMAIN dst /\ CountOf(sent, q) = 1)
                              /\ (src[q] = "file" /\ q \in DOMAIN dst0 /\ dst0[q].kind = "file") =>
                                     dst[q].data = "over"

\* C34 witness: a run without -sync has ended over a destination that held
\* directory 1 and file 2: one warning for 1, no job for it, its file 1/1 and
\* its directory 1/2 not copied, and the sibling file 2 written over.
C34_Witness ==
    /\ mainPc = "exit"
    /\ ~optSync
    /\ src = TreeMixed
    /\ dst0 = DestSome
    /\ fail = {}
    /\ CountOf(stderr, <<"mkdir", <<1>>>>) = 1
    /\ CountOf(sent, <<1>>) = 0
    /\ <<1, 1>> \notin DOMAIN dst
    /\ <<1, 2>> \notin DOMAIN dst
    /\ dst[<<2>>].data = "over"
    /\ CountOf(completed, <<>>) = 1

\* Owner or timestamps of the source directory were applied to the
\* destination directory d (lines 232-238): nothing else sets these marks,
\* and no destination entry has them when the run starts.
Preserved(d) ==
    /\ d \in DOMAIN dst
    /\ dst[d].kind = "dir"
    /\ dst[d].own \/ dst[d].tim

\* The destination entries a step creates.
Created == DOMAIN dst' \ DOMAIN dst

\* C35: once owner or timestamps were applied to a destination directory,
\* no step of any copy thread creates an entry directly inside it: the
\* entries of such a directory stay the same set for the rest of the run.
\* The marks are on a directory only when the range loop of its job is
\* through: its copy thread is past the attribute step, or the job has
\* called wg.Done(); and no entry of it is about to be created.
C35_NoEntryAfterAttributes ==
    /\ [][\A p \in Created : ~Preserved(Parent(p))]_vars
    /\ [][\A d \in Paths : Preserved(d) => Names(dst', d) = Names(dst, d)]_vars
    /\ [](\A d \in Paths :
            Preserved(d) =>
                /\ CountOf(retrieved, d) = 1
                /\ \/ CountOf(completed, d) = 1
                   \/ \E w \in Workers : pc[w] = "done" /\ dir[w] = d
                /\ \A w \in Workers :
                       (pc[w] \in {"loop", "send"} /\ files[w] # <<>>) => dir[w] # d)

\* C35 witness: directory 1 was created by this run, holds the file copied
\* into it and has its attributes applied, while a copy thread is still in a
\* range loop with entries to create elsewhere.
C35_Witness ==
    /\ <<1>> \notin DOMAIN dst0
    /\ Preserved(<<1>>)
    /\ <<1, 1>> \in DOMAIN dst
    /\ \E w \in Workers : pc[w] = "loop" /\ files[w] # <<>> /\ EntryPath(w) \notin DOMAIN dst

\* What a run does apart from its log lines: the inputs other than -verbose
\* and -quiet, the destination tree, main's position, the counter, the
\* channels and the work list, every copy thread's position and locals, and
\* the jobs sent, received and completed.  A step's file system operation,
\* job submission or counter update is the change it makes to these.
effects ==
    <<src, dst0, dst, fail, argsOk, optThreads, optCreate, optSync, optOwner, optTimes,
      mainPc, wg, dch, wch, worklist, pc, dir, files, desthash,
      sent, retrieved, completed>>

\* The state of the run that differs from this one in the logging options
\* only, -quiet being q and -verbose being v, after the same schedule.
Twin(q, v) ==
    /\ optQuiet' = q
    /\ optVerbose' = v
    /\ UNCHANGED <<effects, stderr, stdout>>
    /\ UNCHANGED qvars

\* A run can take a step that has the effects K; that leaves os.Stderr as
\* it is if it is in quiet mode, and brings it to E if sameQuiet; and that
\* brings os.Stdout to O if sameVerbose.  (The "ERROR - ..." line of
\* prepareDestDir is not a warning and is written in quiet mode too.)
Matched(K, E, O, sameQuiet, sameVerbose) ==
    ENABLED (/\ Next
             /\ effects' = K
             /\ (optQuiet /\ mainPc # "prepare") => stderr' = stderr
             /\ sameQuiet => stderr' = E
             /\ sameVerbose => stdout' = O)

\* The lines that are written whatever the logging options are: the errors
\* of prepareDestDir on os.Stderr, the usage message on os.Stdout.
Errors ==
    {<<m, <<>>>> : m \in {"unable to create destination dir",
                          "destination directory does not exist",
                          "cannot stat() destination directory",
                          "destination exists, but is not a directory"}}
Usage == {<<"Usage", <<>>>>}

\* C36: for every step of a run, the run that differs in -quiet only and
\* the run that differs in -verbose only, being after the same schedule in
\* the state with the same effects, can take a step with the same effects:
\* the same file system operation, job submission and counter update,
\* leading to the same destination tree.  So the runs stay in step to the
\* end, and what one can do the other can.  The step of the run in quiet
\* mode writes no warning; -quiet leaves the progress lines as they are and
\* -verbose the warnings.  In quiet mode os.Stderr holds no warning at all,
\* and without -verbose os.Stdout holds no progress line.
C36_LoggingOnly ==
    /\ [][\A t \in {<<~optQuiet, optVerbose>>, <<optQuiet, ~optVerbose>>} :
            \E K \in {effects'}, E \in {stderr'}, O \in {stdout'},
               sameQuiet \in {t[1] = optQuiet}, sameVerbose \in {t[2] = optVerbose} :
                ENABLED (Twin(t[1], t[2]) /\ Matched(K, E, O, sameQuiet, sameVerbose)')]_vars
    /\ [][(optQuiet /\ mainPc # "prepare") => stderr' = stderr]_vars
    /\ [](optQuiet => DOMAIN stderr \subseteq Errors)
    /\ [](~optVerbose => DOMAIN stdout \subseteq Usage)

\* C36 witness: a run in quiet mode without -verbose has ended after a
\* failed mkdir, a failed file copy, a failed link copy and a failed stat,
\* with nothing written to os.Stderr or os.Stdout.
C36_Witness ==
    /\ mainPc = "exit"
    /\ optQuiet /\ ~optVerbose
    /\ <<"mkdir", <<1, 2>>>> \in fail
    /\ CountOf(completed, <<>>) = 1 /\ CountOf(completed, <<1>>) = 1
    /\ <<1, 2>> \notin DOMAIN dst
    /\ <<1, 1>> \notin DOMAIN dst
    /\ stderr = Empty
    /\ stdout = Empty

(***************************************************************************)
(* PROPERTIES OF PART I (InfChan), checked under QSpec, QFairSpec and       *)
(* QLiveSpec, and of both parts, checked under BothSpec.                   *)
(***************************************************************************)

\* The values the sender sends: 0 .. count-1, each once (`s <- i`).
Values == 0..(count - 1)

\* C1: in FIFO and in LIFO mode, whatever the interleaving, the receiver is
\* never handed a value that was not sent, never handed a value twice, and
\* once it has drained the closed receive channel it has every value sent
\* exactly once.
C1_ExactlyOnce ==
    /\ \A n \in 1..Len(received) : received[n] \in 0..(i - 1)
    /\ \A v \in Values : Occurrences(received, v) <= 1
    /\ rPc = "done" =>
          /\ sPc = "done"
          /\ \A v \in Values : Occurrences(received, v) = 1

\* C1 witness: a LIFO channel was drained to the end and delivered the values
\* in another order than they were sent.
C1_Witness ==
    /\ rPc = "done"
    /\ ~fifo
    /\ count >= 2
    /\ received[1] # 0

\* C2: in FIFO mode the n-th value received is the n-th value sent, in every
\* state of every schedule, the writer loop after the close included.
C2_FifoOrder ==
    fifo => \A n \in 1..Len(received) : received[n] = n - 1

\* C2 witness: a FIFO channel was drained to the end, and at least two values
\* were still pending in the slice when the send channel was found closed
\* (they were delivered by the writer loop).
C2_Witness ==
    /\ fifo
    /\ rPc = "done"
    /\ k >= 2
    /\ Len(received) = count

\* C3: every send on the send channel completes (the sender's loop moves on
\* to the next value), whatever the receiver does, provided the sender and
\* the infchan goroutine are scheduled.
C3_SendCompletes ==
    \A v \in 0..(MaxCount - 1) : (SenderOffers /\ i = v) ~> (i > v)

\* C3 witness: every send has completed and the send channel is closed,
\* although the receiver has not received a single value and more values are
\* pending than the two channels can buffer.
C3_Witness ==
    /\ sPc = "done"
    /\ received = <<>>
    /\ count > 2 * chanCap
    /\ Len(data) >= 1

\* C15, as claimed: after the send channel was found closed, each value the
\* writer loop places on the receive channel is the one the reader loop would
\* have placed next: the oldest value left in FIFO mode, the most recently
\* submitted value left in LIFO mode.
C15_DrainInModeOrder ==
    [][(qPc = "writeloop" /\ k' = k + 1) =>
          LET v == IF fifo THEN data[k + 1] ELSE data[Len(data) - k]
          IN  out' = Append(out, v) \/ received' = Append(received, v)]_vars

\* C15, amended: the slice holds its values in the order they were sent; after
\* the send channel was found closed the writer loop places them on the
\* receive channel in that order, oldest first, in FIFO and in LIFO mode
\* alike; the receive channel is closed only when the writer loop is through
\* the slice and every value of it is on the receive channel or received.
C15_DrainOldestFirst ==
    /\ [][(qPc = "writeloop" /\ k' = k + 1) =>
            (out' = Append(out, data[k + 1]) \/ received' = Append(received, data[k + 1]))]_vars
    /\ [](/\ \A a, b \in 1..Len(data) : a < b => data[a] < data[b]
          /\ outClosed =>
                /\ qPc = "done"
                /\ k = Len(data)
                /\ \A j \in 1..Len(data) :
                       Occurrences(out, data[j]) + Occurrences(received, data[j]) = 1)

\* C15 witness: a LIFO channel was closed by its sender with three values in
\* the slice; the writer loop delivered them and the receiver got them
\* oldest first, before it found the receive channel closed.
C15_Witness ==
    /\ ~fifo
    /\ rPc = "done"
    /\ Len(data) = 3
    /\ k = 3
    /\ SubSeq(received, Len(received) - 2, Len(received)) = data

\* C16: once the sender has closed the send channel, and with the receiver
\* receiving, the receive channel gets closed and the infchan goroutine
\* returns; the receive channel is closed only when the send channel is
\* closed and empty, the sender has sent all its values, and every one of
\* them, those that were in the buffer of the send channel at the close
\* included, is in the receive channel or was received; and the goroutine has
\* returned exactly when the receive channel is closed.
C16_DrainAndClose ==
    /\ inClosed ~> (outClosed /\ qPc = "done")
    /\ [](outClosed =>
            /\ inClosed
            /\ in = <<>>
            /\ i = count
            /\ \A v \in Values : Occurrences(out, v) + Occurrences(received, v) = 1)
    /\ [](outClosed <=> qPc = "done")

\* C16 witness: the receive channel is closed, the goroutine has returned,
\* and values the writer loop placed are still in the buffer of the receive
\* channel for a receiver that is not through yet.
C16_Witness ==
    /\ outClosed
    /\ qPc = "done"
    /\ count >= 3
    /\ k >= 1
    /\ out # <<>>
    /\ rPc # "done"

\* The value a step hands to the retrieve side of InfChan: the value
\* appended to the buffer of the receive channel, or passed to the waiting
\* receiver.  HandsOut says that the step is such a step.
HandsOut == Len(out') > Len(out) \/ (received' # received /\ out' = out)
HandedOut == IF Len(out') > Len(out) THEN out'[Len(out')] ELSE received'[Len(received')]

\* C26: InfChan's goroutine in its reader loop, and the dispatcher while the
\* process runs.  With nothing pending (data, the work list, empty) the
\* stage can only take a submission (or find the send channel closed): its
\* step is enabled exactly when one is there, and no step hands anything to
\* the retrieve side.  With something pending both cases of the select are
\* offered: the receive is enabled exactly when a submission is there, the
\* hand-out exactly when the retrieve side can take a value.  Every value
\* handed out, in the writer loop too, is an element of the pending
\* sequence at an index within its bounds, and the reader loop and the
\* dispatcher drop exactly that element from it.
C26_Arbitration ==
    /\ []((qPc = "readloop" /\ data = <<>>) =>
            /\ ~ENABLED SelectSend
            /\ ENABLED infchan <=> (InHasValue \/ InDrained))
    /\ []((qPc = "readloop" /\ data # <<>>) =>
            /\ ENABLED SelectRecv <=> InHasValue
            /\ ENABLED SelectSend <=> OutAccepts
            /\ Index \in 0..(Len(data) - 1))
    /\ [][HandsOut =>
            /\ data # <<>>
            /\ \E j \in 1..Len(data) :
                  /\ HandedOut = data[j]
                  /\ IF qPc = "readloop"
                        THEN data' = SubSeq(data, 1, j - 1) \o SubSeq(data, j + 1, Len(data))
                        ELSE j = k + 1 /\ data' = data]_vars
    /\ []((Running /\ worklist = <<>>) =>
            /\ ~ENABLED DispatcherSelectSend
            /\ ENABLED dispatcher <=> dch # <<>>)
    /\ []((Running /\ worklist # <<>>) =>
            /\ ENABLED DispatcherSelectRecv <=> dch # <<>>
            /\ ENABLED DispatcherSelectSend <=> Len(wch) < QueueCap)
    /\ [][Len(wch') > Len(wch) =>
            /\ worklist # <<>>
            /\ \E j \in 1..Len(worklist) :
                  /\ wch' = Append(wch, worklist[j])
                  /\ worklist' = SubSeq(worklist, 1, j - 1) \o SubSeq(worklist, j + 1, Len(worklist))]_vars

\* C26 witness: InfChan's reader loop holds two values, after it handed out
\* another, and both cases of its select can proceed: a further value is
\* submitted and the retrieve side can take one.
C26_Witness ==
    /\ qPc = "readloop"
    /\ Len(data) >= 2
    /\ InHasValue
    /\ OutAccepts
    /\ Len(received) + Len(out) >= 1

\* C27, as claimed: in LIFO mode the value the reader loop hands out is the
\* most recently submitted of the values not yet handed out, those waiting in
\* the buffer of the send channel included; and the path the dispatcher
\* hands out is the most recently submitted of the paths not yet handed out,
\* those waiting in dch included.
C27_NewestSubmitted ==
    /\ [][(~fifo /\ qPc = "readloop" /\ HandsOut) =>
            HandedOut = (IF in # <<>> THEN in[Len(in)] ELSE data[Len(data)])]_vars
    /\ [][Len(wch') > Len(wch) =>
            wch'[Len(wch')] = (IF dch # <<>> THEN dch[Len(dch)] ELSE worklist[Len(worklist)])]_vars

\* C27, amended: the pending sequence (data in LIFO mode, the work list) is
\* a stack: a value taken from the submit side is appended to its end, and
\* the value the reader loop or the dispatcher hands out is its last
\* element, the most recently accepted of the values it holds, which is
\* dropped from its end.  Values still waiting in the buffer of the submit
\* side are not considered.
C27_NewestPending ==
    /\ [][(~fifo /\ qPc = "readloop" /\ HandsOut) =>
            /\ HandedOut = data[Len(data)]
            /\ \A j \in 1..Len(data) : data[j] <= HandedOut
            /\ data' = SubSeq(data, 1, Len(data) - 1)]_vars
    /\ [][(~fifo /\ Len(data') > Len(data)) =>
            /\ SubSeq(data', 1, Len(data)) = data
            /\ Len(data') = Len(data) + 1
            /\ \A j \in 1..Len(data) : data[j] < data'[Len(data')]]_vars
    /\ [][Len(wch') > Len(wch) =>
            /\ wch' = Append(wch, worklist[Len(worklist)])
            /\ worklist' = SubSeq(worklist, 1, Len(worklist) - 1)]_vars
    /\ [][Len(worklist') > Len(worklist) =>
            /\ dch # <<>>
            /\ worklist' = Append(worklist, Head(dch))]_vars

\* C27 witness: a LIFO channel in its reader loop has handed out a value that
\* was not the first one sent, holds older values in its slice, and a newer
\* value is waiting in the buffer of the send channel.
C27_Witness ==
    /\ ~fifo
    /\ qPc = "readloop"
    /\ in # <<>>
    /\ data # <<>>
    /\ Len(received) + Len(out) >= 1
    /\ (received \o out)[1] > data[1]

\* The values the infchan goroutine holds and has not written to the receive
\* channel yet: in the reader loop the whole slice; in the writer loop, which
\* ranges over the slice and leaves it as it is, its elements from the
\* position of the range onwards.
Pending == IF qPc = "readloop" THEN data ELSE SubSeq(data, k + 1, Len(data))

\* C33 as claimed: in every reachable state each value sent so far is, once,
\* in the buffer of the send channel, in the slice, in the buffer of the
\* receive channel or among the values received, and no other value is in
\* any of them; and in the reader loop, with data present, the slice loses
\* an element exactly in the step that takes the select's send case, and
\* then the element offered.
C33_Conservation ==
    /\ [](\A v \in Values :
            Occurrences(in, v) + Occurrences(data, v)
                + Occurrences(out, v) + Occurrences(received, v)
            = IF v < i THEN 1 ELSE 0)
    /\ [][(qPc = "readloop" /\ data # <<>>) =>
            /\ HandsOut <=> Len(data') < Len(data)
            /\ HandsOut => (HandedOut = data[Index + 1] /\ data' = Dropped)]_vars

\* C33, amended: the same conservation with the values the goroutine has
\* not written yet in the place of the slice.  In the reader loop these are
\* the slice; the writer loop writes the slice out element by element
\* without removing anything from it, so that there the values of the slice
\* before the range position are in the slice and also in the receive
\* channel or with the receiver.
C33_ConservationPending ==
    /\ [](\A v \in Values :
            Occurrences(in, v) + Occurrences(Pending, v)
                + Occurrences(out, v) + Occurrences(received, v)
            = IF v < i THEN 1 ELSE 0)
    /\ [][(qPc = "readloop" /\ data # <<>>) =>
            /\ HandsOut <=> Len(data') < Len(data)
            /\ HandsOut => (HandedOut = data[Index + 1] /\ data' = Dropped)]_vars
    /\ [][qPc # "readloop" =>
            /\ data' = data
            /\ HandsOut => (HandedOut = data[k + 1] /\ k' = k + 1)]_vars
    /\ [](qPc # "readloop" =>
            \A n \in 1..k : Occurrences(out, data[n]) + Occurrences(received, data[n]) = 1)

\* C33 witness: the writer loop has written part of the slice; values are in
\* the slice, in the buffer of the receive channel and with the receiver.
C33_Witness ==
    /\ qPc = "writeloop"
    /\ k >= 1
    /\ k < Len(data)
    /\ out # <<>>
    /\ received # <<>>

\* C37: with chanCap = 0 nothing is ever buffered in the send or in the
\* receive channel, and still: while the sender is in a send, the goroutine
\* is in its reader loop and its receive is enabled, whatever the receiver
\* does and however many values are pending, and every send completes; every
\* value sent is, exactly once, pending in the slice or received; in FIFO
\* mode the n-th value received is the n-th sent; and once the send channel
\* is closed the receive channel gets closed, not before every value sent
\* was handed to the receiver.
C37_Unbuffered ==
    /\ [](chanCap = 0 => (in = <<>> /\ out = <<>>))
    /\ []((chanCap = 0 /\ SenderOffers) =>
            /\ qPc = "readloop"
            /\ ENABLED (ReadEmptyRecv \/ SelectRecv))
    /\ \A v \in 0..(MaxCount - 1) : (chanCap = 0 /\ SenderOffers /\ i = v) ~> (i > v)
    /\ [](chanCap = 0 =>
            \A v \in Values :
                Occurrences(Pending, v) + Occurrences(received, v) = IF v < i THEN 1 ELSE 0)
    /\ []((chanCap = 0 /\ fifo) => \A n \in 1..Len(received) : received[n] = n - 1)
    /\ []((chanCap = 0 /\ outClosed) => (inClosed /\ i = count /\ Len(received) = count))
    /\ (chanCap = 0 /\ inClosed) ~> outClosed

\* C37 witness: an unbuffered FIFO channel took three values or more from
\* the sender before the receiver received any, had two or more of them left
\* for the writer loop, and has closed the receive channel.
C37_Witness ==
    /\ chanCap = 0
    /\ fifo
    /\ count >= 3
    /\ k >= 2
    /\ outClosed
    /\ Len(received) = count

====
